---- MODULE Spec2Model ----
(***************************************************************************)
(* A model of withrestart: restarts, handlers and the dispatcher (invoke), *)
(* kept on three CallStack tables keyed by execution frame.                *)
(*                                                                         *)
(* Each thread is an interpreter stack cs[t] of activations: user function *)
(* frames ("fn"), open with-blocks of restart suites ("rs") and of         *)
(* handlers ("hs"), and dispatcher calls in flight ("call").  A frame's    *)
(* f_back is the frame of the nearest activation below it that owns a      *)
(* frame, so the walk of CallStack.items/pop is FrameChain(cs[t]).         *)
(***************************************************************************)
EXTENDS Integers, Sequences, FiniteSets, TLC

\* ------------------------------------------------------------- bounds
\* Activations a thread may hold through its own user code (root included)
MaxDepth == 4
\* The same, per thread, when two threads run
MaxDepthThreads == 3
\* The largest v of a call callit(v), which fails v times and then returns v
MaxFails == 2
MaxAdded == 2
MaxItems == 2
\* Function frames of a thread whose push and pop run statement by statement
MaxDepthSteps == 2

Threads == {1, 2}

\* Frame identities: enough for every live activation and retry nesting
Frames == 1 .. (2 * MaxDepth + MaxFails + 6)

\* ------------------------------------------------------------- values
NoValue == "NoValue"
None == "None"

Restart(id, name, func) == [id |-> id, name |-> name, func |-> func]
NoRestart == Restart(0, "-", "-")
R_use_value == Restart(1, "use_value", "use_value")
R_use_value2 == Restart(2, "use_value", "use_value")
R_skip == Restart(3, "skip", "skip")
R_retry == Restart(4, "retry", "retry")
R_raise_error == Restart(5, "raise_error", "raise_error")
R_skip2 == Restart(6, "skip", "skip")
\* Restarts a program adds to a suite it has built: Restart(use_value,
\* "my_use_value"), twice
R_my_use_value == Restart(7, "my_use_value", "use_value")
R_my_use_value2 == Restart(8, "my_use_value", "use_value")
RestartNames == {"use_value", "skip", "retry", "raise_error", "my_use_value"}

\* RestartSuite objects a program builds: restarts(skip,retry,use_value),
\* restarts(use_value,raise_error); and the suite Restart.__enter__ wraps
\* around a single Restart
RestartSuite(s) ==
    CASE s = "S1" -> <<R_skip, R_retry, R_use_value>>
      [] s = "S2" -> <<R_use_value2, R_raise_error>>
      [] s = "W3" -> <<R_skip2>>
      [] s = "S0" -> << >>
SuiteObjects == {"S1", "S2"}
\* The suite that restarts are added to: restarts(), built empty
InlineSuite == "S0"
SingleRestarts == {R_skip2}
Wrapper(r) == "W3"

\* Exceptions in flight: ty "none" is no exception
Exc(ty, r, val, ety, name) ==
    [ty |-> ty, r |-> r, val |-> val, ety |-> ety, name |-> name]
NoExc == Exc("none", NoRestart, None, "-", "-")
Err(ty) == Exc(ty, NoRestart, None, "-", "-")
MissingRestartError(name) == Exc("MissingRestartError", NoRestart, None, "-", name)
InvokeRestart(r, val, ety) == Exc("InvokeRestart", r, val, ety, "-")

\* Handler(exc_type, func, *args): func is a restart name (a string) or the
\* callback "callback", which returns normally
Handler(exc_type, func, val, ety) ==
    [exc_type |-> exc_type, func |-> func, val |-> val, ety |-> ety]
HItem(cls, hs) == [cls |-> cls, handlers |-> hs]
HandlerMenu ==
    { HItem("Handler", <<Handler("TypeError", "use_value", "7", "-")>>),
      HItem("Handler", <<Handler("ValueError", "retry", None, "-")>>),
      HItem("Handler", <<Handler("Exception", "skip", None, "-")>>),
      HItem("HandlerSuite", <<Handler("Exception", "callback", None, "-"),
                              Handler("ValueError", "raise_error", None, "RuntimeError")>>) }
NoItem == HItem("-", << >>)

\* isinstance(e, exc_type)
IsInstance(e, exc_type) ==
    \/ e.ty = exc_type
    \/ exc_type = "Exception" /\ e.ty # "none"

\* ------------------------------------------------------------- activations
\* k: "fn" a function frame, "rs" an open with-block of a restart suite obj
\* (via "suite": with RestartSuite, "single": with Restart), "hs" an open
\* with-block of the handler item h, "call" a dispatcher call of form obj
\* ("free": invoke, else the suite called) with target func(arg).  fr is the
\* activation's own frame ("fn", "call") or the frame its with statement is in
Act(k, fr, obj, func, arg, mode, via, pend, h) ==
    [k |-> k, fr |-> fr, obj |-> obj, func |-> func, arg |-> arg,
     mode |-> mode, via |-> via, pend |-> pend, h |-> h]
FnAct(fr, func) == Act("fn", fr, "-", func, None, "-", "-", NoExc, NoItem)
RsAct(fr, s, via) == Act("rs", fr, s, "-", None, "open", via, NoExc, NoItem)
HsAct(fr, h) == Act("hs", fr, "-", "-", None, "-", "-", NoExc, h)
CallAct(fr, form, func, arg, via) ==
    Act("call", fr, form, func, arg, "target", via, NoExc, NoItem)

Reverse(s) == [i \in 1 .. Len(s) |-> s[Len(s) + 1 - i]]
Top(stack) == stack[Len(stack)]
Pop(stack) == SubSeq(stack, 1, Len(stack) - 1)

\* The f_back walk from the code running on top of the stack
FrameChain(stack) ==
    LET own == SelectSeq(stack, LAMBDA a : a.k \in {"fn", "call"})
    IN  [i \in 1 .. Len(own) |-> own[Len(own) + 1 - i].fr]


\* ------------------------------------------------------------- state
VARIABLES
    cs,             \* per thread: the stack of activations
    exc,            \* per thread: the exception propagating, or NoExc
    ret,            \* per thread: the value the last completed call returned
    cur_restarts,   \* _cur_restarts._frame_stacks
    cur_handlers,   \* _cur_handlers._frame_stacks
    cur_calls,      \* _cur_calls._frame_stacks
    call_count,     \* failures the target callit still has to raise
    gen,            \* the generator object check_items: state and saved scopes
    restarts,       \* per RestartSuite object: self.restarts
    default_handlers,   \* per RestartSuite object: the attribute default_handlers
    last            \* per thread: what its last step did (history)

vars == <<cs, exc, ret, cur_restarts, cur_handlers, cur_calls, call_count, gen,
          restarts, default_handlers, last>>

\* ------------------------------------------------------------- CallStack
FramesOf(stack) == {stack[i].fr : i \in 1 .. Len(stack)}

\* push on one stack for the whole thread, kept under its first frame
CallStackPush_per_thread(frame_stacks, frame, item) ==
    LET key == IF \E t \in Threads : frame \in FramesOf(cs[t])
               THEN cs[CHOOSE t \in Threads : frame \in FramesOf(cs[t])][1].fr
               ELSE frame
    IN  IF key \in DOMAIN frame_stacks
        THEN [frame_stacks EXCEPT ![key] = Append(@, item)]
        ELSE frame_stacks @@ (key :> <<item>>)

\* push: the list of the frame, created when absent, gets the item appended
CallStackPush(frame_stacks, frame, item) ==
    IF frame \in DOMAIN frame_stacks
    THEN [frame_stacks EXCEPT ![frame] = Append(@, item)]
    ELSE frame_stacks @@ (frame :> <<item>>)

\* frames of the chain that hold a list, nearest first
Holding(frame_stacks, chain) ==
    SelectSeq(chain, LAMBDA f : f \in DOMAIN frame_stacks)

\* pop that leaves the emptied stack of a frame in the table
CallStackPop_keeps_empty(frame_stacks, chain) ==
    LET held == SelectSeq(chain, LAMBDA f : f \in DOMAIN frame_stacks) IN
    IF held = << >> THEN [ok |-> FALSE, stacks |-> frame_stacks]
    ELSE [ok |-> TRUE,
          stacks |-> [frame_stacks EXCEPT ![held[1]] = SubSeq(@, 1, Len(@) - 1)]]

\* pop that looks at the caller's own frame only
CallStackPop_own_frame_only(frame_stacks, chain) ==
    IF chain = << >> \/ chain[1] \notin DOMAIN frame_stacks
    THEN [ok |-> FALSE, stacks |-> frame_stacks]
    ELSE LET rest == Pop(frame_stacks[chain[1]])
         IN  [ok |-> TRUE,
              stacks |-> IF rest = << >>
                         THEN [f \in DOMAIN frame_stacks \ {chain[1]} |-> frame_stacks[f]]
                         ELSE [frame_stacks EXCEPT ![chain[1]] = rest]]

\* pop: the nearest frame holding a list loses its last item, and its entry
\* when the list becomes empty; IndexError when no frame of the chain holds one
CallStackPop(frame_stacks, chain) ==
    LET held == Holding(frame_stacks, chain) IN
    IF held = << >> THEN [ok |-> FALSE, stacks |-> frame_stacks]
    ELSE LET frame == held[1]
             rest == Pop(frame_stacks[frame])
         IN  [ok |-> TRUE,
              stacks |-> IF rest = << >>
                         THEN [f \in DOMAIN frame_stacks \ {frame} |-> frame_stacks[f]]
                         ELSE [frame_stacks EXCEPT ![frame] = rest]]

\* items that walks every frame of the table after those of the chain
CallStackItems_every_frame(frame_stacks, chain) ==
    LET Walk[c \in Seq(Frames)] ==
            IF c = << >> THEN << >>
            ELSE (IF c[1] \in DOMAIN frame_stacks THEN Reverse(frame_stacks[c[1]])
                  ELSE << >>) \o Walk[Tail(c)]
        others == {f \in DOMAIN frame_stacks : \A i \in 1 .. Len(chain) : chain[i] # f}
        Rest[fs \in SUBSET Frames] ==
            IF fs = {} THEN << >>
            ELSE LET f == CHOOSE x \in fs : \A y \in fs : x >= y
                 IN  Reverse(frame_stacks[f]) \o Rest[fs \ {f}]
    IN  Walk[chain] \o Rest[others]

\* items: each frame of the chain, nearest first, newest item first
RECURSIVE CallStackItems(_, _)
CallStackItems(frame_stacks, chain) ==
    IF chain = << >> THEN << >>
    ELSE (IF chain[1] \in DOMAIN frame_stacks
          THEN Reverse(frame_stacks[chain[1]]) ELSE << >>)
         \o CallStackItems(frame_stacks, Tail(chain))

\* a suite whose restarts are those it was built with, whatever is added
Members_as_built(s) == RestartSuite(s)

\* self.restarts of the suite object s
Members(s) == restarts[s]

\* RestartSuite.add_restart(r), r a Restart instance: the list afterwards
add_restart(list, r) == Append(list, r)

\* The argument of del_restart that stands for r: the instance itself, its
\* function, or its name
DelKey(r, by) ==
    [by |-> by,
     v |-> CASE by = "instance" -> r
             [] by = "function" -> r.func
             [] by = "name" -> r.name]

\* `r is restart or r.func is restart or r.name == restart`
KeyMatches(m, key) ==
    \/ key.by = "instance" /\ m = key.v
    \/ key.by = "function" /\ m.func = key.v
    \/ key.by = "name" /\ m.name = key.v

\* RestartSuite.del_restart(restart): the list afterwards
del_restart(list, key) == SelectSeq(list, LAMBDA m : ~KeyMatches(m, key))
InSeq(x, seq) == \E i \in 1 .. Len(seq) : seq[i] = x

\* ------------------------------------------------------------- lookup
RECURSIVE FirstNamed(_, _)
FirstNamed(rs, name) ==
    IF rs = << >> THEN NoRestart
    ELSE IF rs[1].name = name THEN rs[1] ELSE FirstNamed(Tail(rs), name)

\* a search in which the farthest suite that has the name wins
RECURSIVE FindInSuites_outermost(_, _)
FindInSuites_outermost(suites, name) ==
    IF suites = << >> THEN NoRestart
    ELSE LET r == FindInSuites_outermost(Tail(suites), name)
         IN  IF r # NoRestart THEN r ELSE FirstNamed(Members(suites[1]), name)

RECURSIVE FindInSuites(_, _)
FindInSuites(suites, name) ==
    IF suites = << >> THEN NoRestart
    ELSE LET r == FirstNamed(Members(suites[1]), name)
         IN  IF r # NoRestart THEN r ELSE FindInSuites(Tail(suites), name)

\* find_restart(name), called from code whose f_back walk is chain
find_restart(chain, name) ==
    FindInSuites(CallStackItems(cur_restarts, chain), name)

\* a handler that does nothing when its restart is not found
handle_error_lenient(h, e, chain) ==
    IF ~IsInstance(e, h.exc_type) THEN [exc |-> NoExc, ran |-> 0]
    ELSE IF h.func \in RestartNames /\ find_restart(chain, h.func) # NoRestart
         THEN [exc |-> InvokeRestart(find_restart(chain, h.func), h.val, h.ety), ran |-> 1]
         ELSE [exc |-> NoExc, ran |-> 1]

\* ------------------------------------------------------------- handlers
\* Handler.handle_error: what one handler does with error e.  exc is what it
\* raises (NoExc when it returns), ran whether its reaction ran
handle_error(h, e, chain) ==
    IF ~IsInstance(e, h.exc_type) THEN [exc |-> NoExc, ran |-> 0]
    ELSE IF h.func \in RestartNames
         THEN LET r == find_restart(chain, h.func)
              IN  IF r = NoRestart
                  THEN [exc |-> MissingRestartError(h.func), ran |-> 1]
                  ELSE [exc |-> InvokeRestart(r, h.val, h.ety), ran |-> 1]
         ELSE [exc |-> NoExc, ran |-> 1]

\* a loop that goes on after a handler has raised: the last one that raises wins
RECURSIVE HandleEach_runs_all(_, _, _, _)
HandleEach_runs_all(hs, e, chain, ran) ==
    IF hs = << >> THEN [exc |-> NoExc, ran |-> ran]
    ELSE LET one == handle_error(hs[1], e, chain)
             rest == HandleEach_runs_all(Tail(hs), e, chain, ran + one.ran)
         IN  IF rest.exc # NoExc \/ one.exc = NoExc THEN rest
             ELSE [exc |-> one.exc, ran |-> rest.ran]

\* The loop over handlers: the first one that raises ends it
RECURSIVE HandleEach(_, _, _, _)
HandleEach(hs, e, chain, ran) ==
    IF hs = << >> THEN [exc |-> NoExc, ran |-> ran]
    ELSE LET one == handle_error(hs[1], e, chain)
         IN  IF one.exc # NoExc THEN [exc |-> one.exc, ran |-> ran + one.ran]
             ELSE HandleEach(Tail(hs), e, chain, ran + one.ran)

\* The handlers of the visible items, in the order they are tried
RECURSIVE Flatten(_)
Flatten(items) ==
    IF items = << >> THEN << >>
    ELSE items[1].handlers \o Flatten(Tail(items))

\* _invoke_cur_handlers(err)
invoke_cur_handlers(err, chain) ==
    HandleEach(Flatten(CallStackItems(cur_handlers, chain)), err, chain, 0)

\* a retry that returns without calling the function again
RestartFunc_retry_returns(r, val, ety) ==
    CASE r.func = "use_value" -> [kind |-> "value", val |-> val, exc |-> NoExc]
      [] r.func = "skip" -> [kind |-> "value", val |-> NoValue, exc |-> NoExc]
      [] r.func = "raise_error" -> [kind |-> "raise", val |-> None, exc |-> Err(ety)]
      [] r.func = "retry" -> [kind |-> "value", val |-> None, exc |-> NoExc]

\* ------------------------------------------------------------- restarts
\* The pre-defined restarts.  kind "value": the callback returned val;
\* "raise": it raised exc; "retry": it is retry(), which re-enters invoke
RestartFunc(r, val, ety) ==
    CASE r.func = "use_value" -> [kind |-> "value", val |-> val, exc |-> NoExc]
      [] r.func = "skip" -> [kind |-> "value", val |-> NoValue, exc |-> NoExc]
      [] r.func = "raise_error" -> [kind |-> "raise", val |-> None, exc |-> Err(ety)]
      [] r.func = "retry" -> [kind |-> "retry", val |-> None, exc |-> NoExc]

\* InvokeRestart.invoke
InvokeRestart_invoke(e) == RestartFunc(e.r, e.val, e.ety)

\* What an except clause or an __exit__ comes to.  kind: "return" val,
\* "raise" exc, "retry" (a nested dispatcher call has to finish first);
\* for __exit__: "true", "false", "raise", "retry".  sel is the restart the
\* handlers selected, invoked how often its callback was called, ran how
\* many handler reactions ran, seen the handlers that were consulted
Out(kind, val, e, sel, invoked, h) ==
    [kind |-> kind, val |-> val, exc |-> e, sel |-> sel, invoked |-> invoked,
     ran |-> h.ran]

\* a dispatcher that drops the value of the restart it invoked
AfterInvoke_drops_value(e, h) ==
    LET v == InvokeRestart_invoke(e) IN
    CASE v.kind = "value" ->
            IF v.val # NoValue THEN Out("return", None, NoExc, e.r, 1, h)
            ELSE Out("raise", None, e, e.r, 1, h)
      [] v.kind = "raise" -> Out("raise", None, v.exc, e.r, 1, h)
      [] v.kind = "retry" -> Out("retry", None, NoExc, e.r, 1, h)

\* After e.invoke() in a dispatcher: return the value unless it is NoValue
AfterInvoke(e, h) ==
    LET v == InvokeRestart_invoke(e) IN
    CASE v.kind = "value" ->
            IF v.val # NoValue THEN Out("return", v.val, NoExc, e.r, 1, h)
            ELSE Out("raise", None, e, e.r, 1, h)
      [] v.kind = "raise" -> Out("raise", None, v.exc, e.r, 1, h)
      [] v.kind = "retry" -> Out("retry", None, NoExc, e.r, 1, h)

\* a dispatcher that hands the NoValue of a restart to its caller
invoke_except_returns_NoValue(err, chain) ==
    LET h == invoke_cur_handlers(err, chain) IN
    IF h.exc = NoExc THEN Out("raise", None, err, NoRestart, 0, h)
    ELSE IF h.exc.ty # "InvokeRestart" THEN Out("raise", None, h.exc, NoRestart, 0, h)
    ELSE IF InvokeRestart_invoke(h.exc).kind = "value"
         THEN Out("return", InvokeRestart_invoke(h.exc).val, NoExc, h.exc.r, 1, h)
         ELSE AfterInvoke(h.exc, h)

\* invoke(func, ...): the except clause, for the error err of the target
invoke_except(err, chain) ==
    LET h == invoke_cur_handlers(err, chain) IN
    IF h.exc = NoExc THEN Out("raise", None, err, NoRestart, 0, h)
    ELSE IF h.exc.ty # "InvokeRestart" THEN Out("raise", None, h.exc, NoRestart, 0, h)
    ELSE AfterInvoke(h.exc, h)

\* a suite dispatcher that takes only the first of its restarts for its own
RestartSuite_call_except_first_only(self, err, chain) ==
    LET h == invoke_cur_handlers(err, chain) IN
    IF h.exc = NoExc THEN Out("raise", None, err, NoRestart, 0, h)
    ELSE IF h.exc.ty # "InvokeRestart" THEN Out("raise", None, h.exc, NoRestart, 0, h)
    ELSE IF Members(self) # << >> /\ h.exc.r = Members(self)[1] THEN AfterInvoke(h.exc, h)
    ELSE Out("raise", None, h.exc, h.exc.r, 0, h)

\* a suite dispatcher that invokes whatever restart the handler chose
RestartSuite_call_except_any(self, err, chain) ==
    LET h == invoke_cur_handlers(err, chain) IN
    IF h.exc = NoExc THEN Out("raise", None, err, NoRestart, 0, h)
    ELSE IF h.exc.ty # "InvokeRestart" THEN Out("raise", None, h.exc, NoRestart, 0, h)
    ELSE AfterInvoke(h.exc, h)

\* a dispatcher whose except clause lacks the final raise
RestartSuite_call_except_swallows(self, err, chain) ==
    LET h == invoke_cur_handlers(err, chain) IN
    IF h.exc = NoExc THEN Out("return", None, NoExc, NoRestart, 0, h)
    ELSE IF h.exc.ty # "InvokeRestart" THEN Out("raise", None, h.exc, NoRestart, 0, h)
    ELSE IF InSeq(h.exc.r, Members(self)) THEN AfterInvoke(h.exc, h)
    ELSE Out("raise", None, h.exc, h.exc.r, 0, h)

\* RestartSuite.__call__: the except clause
RestartSuite_call_except(self, err, chain) ==
    LET h == invoke_cur_handlers(err, chain) IN
    IF h.exc = NoExc THEN Out("raise", None, err, NoRestart, 0, h)
    ELSE IF h.exc.ty # "InvokeRestart" THEN Out("raise", None, h.exc, NoRestart, 0, h)
    ELSE IF InSeq(h.exc.r, Members(self)) THEN AfterInvoke(h.exc, h)
    ELSE Out("raise", None, h.exc, h.exc.r, 0, h)

\* After e.invoke() in RestartSuite.__exit__: the value is dropped
AfterInvokeExit(e, h) ==
    LET v == InvokeRestart_invoke(e) IN
    CASE v.kind = "value" -> Out("true", None, NoExc, e.r, 1, h)
      [] v.kind = "raise" -> Out("raise", None, v.exc, e.r, 1, h)
      [] v.kind = "retry" -> Out("retry", None, NoExc, e.r, 1, h)

NoHandlers == [exc |-> NoExc, ran |-> 0]

\* an __exit__ that offers an error of the body to no handler
RestartSuite_exit_skips_handlers(self, e, chain) ==
    IF e = NoExc THEN Out("false", None, NoExc, NoRestart, 0, NoHandlers)
    ELSE IF e.ty = "InvokeRestart"
    THEN IF InSeq(e.r, Members(self)) THEN AfterInvokeExit(e, NoHandlers)
         ELSE Out("false", None, NoExc, e.r, 0, NoHandlers)
    ELSE Out("false", None, NoExc, NoRestart, 0, NoHandlers)

\* an __exit__ that does not swallow the signal of a restart of its own
RestartSuite_exit_no_suppress(self, e, chain) ==
    IF e = NoExc THEN Out("false", None, NoExc, NoRestart, 0, NoHandlers)
    ELSE IF e.ty = "InvokeRestart"
    THEN Out("false", None, NoExc, e.r, IF InSeq(e.r, Members(self)) THEN 1 ELSE 0, NoHandlers)
    ELSE LET h == invoke_cur_handlers(e, chain) IN
         IF h.exc = NoExc THEN Out("false", None, NoExc, NoRestart, 0, h)
         ELSE IF h.exc.ty # "InvokeRestart" THEN Out("raise", None, h.exc, NoRestart, 0, h)
         ELSE IF InSeq(h.exc.r, Members(self)) THEN AfterInvokeExit(h.exc, h)
         ELSE Out("raise", None, h.exc, h.exc.r, 0, h)

\* RestartSuite.__exit__(exc_type, exc_value, traceback), before the finally
RestartSuite_exit(self, e, chain) ==
    IF e = NoExc THEN Out("false", None, NoExc, NoRestart, 0, NoHandlers)
    ELSE IF e.ty = "InvokeRestart"
    THEN IF InSeq(e.r, Members(self)) THEN AfterInvokeExit(e, NoHandlers)
         ELSE Out("false", None, NoExc, e.r, 0, NoHandlers)
    ELSE LET h == invoke_cur_handlers(e, chain) IN
         IF h.exc = NoExc THEN Out("false", None, NoExc, NoRestart, 0, h)
         ELSE IF h.exc.ty # "InvokeRestart" THEN Out("raise", None, h.exc, NoRestart, 0, h)
         ELSE IF InSeq(h.exc.r, Members(self)) THEN AfterInvokeExit(h.exc, h)
         ELSE Out("raise", None, h.exc, h.exc.r, 0, h)

\* Restart.__exit__: the __exit__ of the nearest visible suite, whose return
\* value is dropped
Restart_exit(e, chain) ==
    LET suites == CallStackItems(cur_restarts, chain) IN
    IF suites = << >> THEN Out("raise", None, Err("StopIteration"), NoRestart, 0, NoHandlers)
    ELSE LET o == RestartSuite_exit(suites[1], e, chain)
         IN  IF o.kind = "true" THEN [o EXCEPT !.kind = "false"] ELSE o

\* ------------------------------------------------------------- history
NoEvent ==
    [op |-> "none", err |-> NoExc, form |-> "-", func |-> "-", arg |-> None,
     via |-> "-", kind |-> "-", sel |-> NoRestart, invoked |-> 0, ran |-> 0,
     seen |-> << >>, name |-> "-", calls |-> 0, reacts |-> 0, n0 |-> 0]

\* The event of an except clause or __exit__ of activation a that handled err
\* and came to o; prev carries the counts of the retry chain it belongs to
Event(op, a, err, o, seen, prev) ==
    [op |-> op, err |-> err, form |-> a.obj, func |-> a.func, arg |-> a.arg,
     via |-> a.via, kind |-> o.kind, sel |-> o.sel, invoked |-> o.invoked,
     ran |-> o.ran, seen |-> seen,
     name |-> IF op = "dispatch" /\ prev.op = "invoke" THEN prev.name ELSE "-",
     calls |-> IF a.func = "callit" THEN prev.calls + (IF o.kind = "retry" THEN 1 ELSE 0) ELSE 0,
     reacts |-> IF a.func = "callit" THEN prev.reacts + o.ran ELSE 0,
     n0 |-> IF a.func = "callit" THEN prev.n0 ELSE 0]

\* ------------------------------------------------------------- frames
Limit == IF cs[2] = << >> THEN MaxDepth ELSE MaxDepthThreads
\* The depth of a thread: its function frames and open with-blocks
Depth(stack) == Len(SelectSeq(stack, LAMBDA a : a.k # "call"))

Used ==
    UNION {FramesOf(cs[t]) : t \in Threads} \cup FramesOf(gen.saved)
    \cup DOMAIN cur_restarts \cup DOMAIN cur_handlers \cup DOMAIN cur_calls
Fresh(used) == CHOOSE f \in Frames \ used : \A g \in Frames \ used : f <= g

\* The thread runs user code: no exception in flight, and on top a function
\* body or the body of an open with-block
Running(t) ==
    /\ cs[t] # << >>
    /\ exc[t] = NoExc
    /\ \/ Top(cs[t]).k \in {"fn", "hs"}
       \/ Top(cs[t]).k = "rs" /\ Top(cs[t]).mode = "open"

OpenSuites(stack) == {stack[i].obj : i \in {j \in 1 .. Len(stack) : stack[j].k = "rs"}}

OpenHandlers(stack) == {stack[i].h : i \in {j \in 1 .. Len(stack) : stack[j].k = "hs"}}

\* a Handler that looks its restart up when its block is entered
EnterHandler_resolves(t, h) ==
    /\ Running(t) /\ Depth(cs[t]) < Limit
    /\ h \notin OpenHandlers(cs[t])
    /\ LET frame == FrameChain(cs[t])[1]
           missing == {i \in 1 .. Len(h.handlers) :
                          /\ h.handlers[i].func \in RestartNames
                          /\ find_restart(FrameChain(cs[t]), h.handlers[i].func) = NoRestart}
       IN  IF missing = {}
           THEN /\ cur_handlers' = CallStackPush(cur_handlers, frame, h)
                /\ cs' = [cs EXCEPT ![t] = Append(@, HsAct(frame, h))]
                /\ exc' = exc
           ELSE /\ exc' = [exc EXCEPT ![t] =
                              MissingRestartError(h.handlers[CHOOSE i \in missing : TRUE].func)]
                /\ UNCHANGED <<cs, cur_handlers>>
    /\ ret' = [ret EXCEPT ![t] = None]
    /\ last' = [last EXCEPT ![t] = NoEvent]
    /\ UNCHANGED <<cur_restarts, cur_calls, call_count, gen, restarts, default_handlers>>

\* ------------------------------------------------------------- scopes
\* with Handler(...) / with handlers(...): __enter__ pushes onto the frame of
\* the with statement
EnterHandler(t, h) ==
    /\ Running(t) /\ Depth(cs[t]) < Limit
    /\ h \notin OpenHandlers(cs[t])
    /\ LET frame == FrameChain(cs[t])[1] IN
       /\ cur_handlers' = CallStackPush(cur_handlers, frame, h)
       /\ cs' = [cs EXCEPT ![t] = Append(@, HsAct(frame, h))]
    /\ ret' = [ret EXCEPT ![t] = None]
    /\ last' = [last EXCEPT ![t] = NoEvent]
    /\ UNCHANGED <<exc, cur_restarts, cur_calls, call_count, gen, restarts, default_handlers>>

\* an __exit__ that returns True
HandlerExit_suppresses(t) ==
    /\ cs[t] # << >> /\ Top(cs[t]).k = "hs"
    /\ cur_handlers' = CallStackPop(cur_handlers, FrameChain(cs[t])).stacks
    /\ exc' = [exc EXCEPT ![t] = NoExc]
    /\ cs' = [cs EXCEPT ![t] = Pop(@)]
    /\ last' = [last EXCEPT ![t] = [NoEvent EXCEPT !.op = "handler_exit", !.err = exc[t]]]
    /\ UNCHANGED <<ret, cur_restarts, cur_calls, call_count, gen, restarts, default_handlers>>

\* Handler.__exit__ / HandlerSuite.__exit__: pop, and return None
HandlerExit(t) ==
    /\ cs[t] # << >> /\ Top(cs[t]).k = "hs"
    /\ LET p == CallStackPop(cur_handlers, FrameChain(cs[t])) IN
       /\ cur_handlers' = p.stacks
       /\ exc' = [exc EXCEPT ![t] = IF p.ok THEN @ ELSE Err("IndexError")]
    /\ cs' = [cs EXCEPT ![t] = Pop(@)]
    /\ last' = [last EXCEPT ![t] = [NoEvent EXCEPT !.op = "handler_exit", !.err = exc[t]]]
    /\ UNCHANGED <<ret, cur_restarts, cur_calls, call_count, gen, restarts, default_handlers>>

\* RestartSuite.__enter__
EnterSuite(t, s) ==
    /\ Running(t) /\ Depth(cs[t]) < Limit
    /\ s \notin OpenSuites(cs[t])
    /\ LET frame == FrameChain(cs[t])[1] IN
       /\ cur_restarts' = CallStackPush(cur_restarts, frame, s)
       /\ cs' = [cs EXCEPT ![t] = Append(@, RsAct(frame, s, "suite"))]
    /\ ret' = [ret EXCEPT ![t] = None]
    /\ last' = [last EXCEPT ![t] = NoEvent]
    /\ UNCHANGED <<exc, cur_handlers, cur_calls, call_count, gen, restarts, default_handlers>>

\* Restart.__enter__: wraps the restart in a new suite and pushes that
EnterRestart(t, r) ==
    /\ Running(t) /\ Depth(cs[t]) < Limit
    /\ \A u \in Threads : Wrapper(r) \notin OpenSuites(cs[u])
    /\ Wrapper(r) \notin OpenSuites(gen.saved)
    /\ LET frame == FrameChain(cs[t])[1] IN
       /\ cur_restarts' = CallStackPush(cur_restarts, frame, Wrapper(r))
       /\ cs' = [cs EXCEPT ![t] = Append(@, RsAct(frame, Wrapper(r), "single"))]
    /\ ret' = [ret EXCEPT ![t] = None]
    /\ last' = [last EXCEPT ![t] = NoEvent]
    /\ UNCHANGED <<exc, cur_handlers, cur_calls, call_count, gen, restarts, default_handlers>>

\* ------------------------------------------------------------- dispatcher
\* The v of the argument of callit
Times(arg) == CHOOSE v \in 1 .. MaxFails : ToString(v) = arg

\* callit(v): the new value of call_count[v].  User code calls callit with a v
\* it has not used before (first), retry() calls it again with the same v
callit(arg, first) == IF first THEN Times(arg) ELSE call_count - 1

\* The entry call_count[v] is not read again once the call user code made is
\* over: it is dropped
Over(a) == IF a.func = "callit" /\ a.via = "user" THEN 0 ELSE call_count

\* The start of invoke(func, arg) / suite(func, arg): the call record is
\* pushed on the dispatcher's own frame and the target is called.  div and
\* callit are leaves and finish at once; calc is a user function whose body
\* runs in further steps
StartCall(t, base, form, func, arg, via) ==
    LET f1 == Fresh(Used)
        f2 == Fresh(Used \cup {f1})
        c == CallAct(f1, form, func, arg, via)
    IN  /\ cur_calls' = CallStackPush(cur_calls, f1,
                            [invoke |-> form, func |-> func, args |-> arg])
        /\ CASE func = "div" ->
                  /\ cs' = [cs EXCEPT ![t] = Append(base, c)]
                  /\ exc' = [exc EXCEPT ![t] =
                                IF arg = "3" THEN NoExc ELSE Err("TypeError")]
                  /\ ret' = [ret EXCEPT ![t] = IF arg = "3" THEN "2" ELSE None]
                  /\ UNCHANGED call_count
             [] func = "callit" ->
                  /\ cs' = [cs EXCEPT ![t] = Append(base, c)]
                  /\ call_count' = callit(arg, via = "user")
                  /\ exc' = [exc EXCEPT ![t] =
                                IF call_count' > 0 THEN Err("ValueError") ELSE NoExc]
                  /\ ret' = [ret EXCEPT ![t] = IF call_count' > 0 THEN None ELSE arg]
             [] func = "calc" ->
                  /\ cs' = [cs EXCEPT ![t] = Append(Append(base, c), FnAct(f2, "calc"))]
                  /\ exc' = [exc EXCEPT ![t] = NoExc]
                  /\ ret' = [ret EXCEPT ![t] = None]
                  /\ UNCHANGED call_count

Targets ==
    {<<"div", "3">>, <<"div", "'2'">>, <<"calc", None>>}
    \cup {<<"callit", ToString(v)>> : v \in 1 .. MaxFails}

\* invoke(func, arg), or suite(func, arg) for a suite object
Invoke(t, form, target) ==
    /\ Running(t)
    /\ form = "free" \/ form \in DOMAIN restarts
    /\ target[1] = "calc" => Depth(cs[t]) < Limit
    /\ StartCall(t, cs[t], form, target[1], target[2], "user")
    /\ last' = [last EXCEPT ![t] =
                   [NoEvent EXCEPT !.op = "invoke", !.func = target[1],
                                   !.name = IF last[t].op \in {"add_restart", "del_restart"}
                                            THEN last[t].name ELSE "-",
                                   !.calls = IF target[1] = "callit" THEN 1 ELSE 0,
                                   !.n0 = IF target[1] = "callit" THEN Times(target[2]) ELSE 0]]
    /\ UNCHANGED <<cur_restarts, cur_handlers, gen, restarts, default_handlers>>

\* a dispatcher that pops its call record after the try statement instead of
\* in a finally clause: an exception leaving the call leaves the record behind
DispatchFailure_no_finally(t) ==
    /\ cs[t] # << >> /\ Top(cs[t]).k = "call" /\ Top(cs[t]).mode = "target"
    /\ IsInstance(exc[t], "Exception")
    /\ LET a == Top(cs[t])
           chain == FrameChain(cs[t])
           o == IF a.obj = "free" THEN invoke_except(exc[t], chain)
                ELSE RestartSuite_call_except(a.obj, exc[t], chain)
           seen == Flatten(CallStackItems(cur_handlers, chain))
       IN  /\ last' = [last EXCEPT ![t] = Event("dispatch", a, exc[t], o, seen, @)]
           /\ IF o.kind = "retry"
              THEN LET rec == CallStackItems(cur_calls, chain)[1] IN
                   /\ rec.func = "calc" => Len(cs[t]) <= Limit + 1
                   /\ StartCall(t, [cs[t] EXCEPT ![Len(cs[t])].mode = "restart"],
                                rec.invoke, rec.func, rec.args, "retry")
              ELSE /\ cur_calls' = IF o.kind = "return"
                                   THEN CallStackPop(cur_calls, chain).stacks
                                   ELSE cur_calls
                   /\ cs' = [cs EXCEPT ![t] = Pop(@)]
                   /\ exc' = [exc EXCEPT ![t] = o.exc]
                   /\ ret' = [ret EXCEPT ![t] = IF o.kind = "return" THEN o.val ELSE @]
                   /\ call_count' = Over(a)
    /\ UNCHANGED <<cur_restarts, cur_handlers, gen, restarts, default_handlers>>

\* The except clause of the dispatcher, and its finally; a retry restart
\* starts the nested dispatcher call of retry() instead
DispatchFailure(t) ==
    /\ cs[t] # << >> /\ Top(cs[t]).k = "call" /\ Top(cs[t]).mode = "target"
    /\ IsInstance(exc[t], "Exception")
    /\ LET a == Top(cs[t])
           chain == FrameChain(cs[t])
           o == IF a.obj = "free" THEN invoke_except(exc[t], chain)
                ELSE RestartSuite_call_except(a.obj, exc[t], chain)
           seen == Flatten(CallStackItems(cur_handlers, chain))
       IN  /\ last' = [last EXCEPT ![t] = Event("dispatch", a, exc[t], o, seen, @)]
           /\ IF o.kind = "retry"
              THEN LET rec == CallStackItems(cur_calls, chain)[1] IN
                   /\ rec.func = "calc" => Len(cs[t]) <= Limit + 1
                   /\ StartCall(t, [cs[t] EXCEPT ![Len(cs[t])].mode = "restart"],
                                rec.invoke, rec.func, rec.args, "retry")
              ELSE /\ cur_calls' = CallStackPop(cur_calls, chain).stacks
                   /\ cs' = [cs EXCEPT ![t] = Pop(@)]
                   /\ exc' = [exc EXCEPT ![t] = o.exc]
                   /\ ret' = [ret EXCEPT ![t] = IF o.kind = "return" THEN o.val ELSE @]
                   /\ call_count' = Over(a)
    /\ UNCHANGED <<cur_restarts, cur_handlers, gen, restarts, default_handlers>>

\* The dispatcher returns: the target returned, or the restart it invoked
\* returned or raised, or the exception is no Exception; finally pops
CallFinish(t) ==
    /\ cs[t] # << >> /\ Top(cs[t]).k = "call"
    /\ \/ Top(cs[t]).mode = "restart"
       \/ ~IsInstance(exc[t], "Exception")
    /\ cur_calls' = CallStackPop(cur_calls, FrameChain(cs[t])).stacks
    /\ cs' = [cs EXCEPT ![t] = Pop(@)]
    /\ last' = [last EXCEPT ![t] =
                   [NoEvent EXCEPT !.op = "finish", !.func = Top(cs[t]).func,
                                   !.form = Top(cs[t]).obj, !.arg = Top(cs[t]).arg,
                                   !.via = Top(cs[t]).via,
                                   !.calls = IF Top(cs[t]).func = "callit" THEN last[t].calls ELSE 0,
                                   !.reacts = IF Top(cs[t]).func = "callit" THEN last[t].reacts ELSE 0,
                                   !.n0 = IF Top(cs[t]).func = "callit" THEN last[t].n0 ELSE 0]]
    /\ call_count' = Over(Top(cs[t]))
    /\ UNCHANGED <<exc, ret, cur_restarts, cur_handlers, gen, restarts, default_handlers>>

\* ------------------------------------------------------------- suite exit
\* The end of a `with restarts(...)` / `with Restart(...)` block:
\* RestartSuite.__exit__ or Restart.__exit__ with the exception in flight (or
\* none), its finally, and what the with statement does with the result.  A
\* retry restart starts the nested dispatcher call of retry() instead
SuiteExit(t) ==
    /\ cs[t] # << >> /\ Top(cs[t]).k = "rs" /\ Top(cs[t]).mode = "open"
    /\ LET a == Top(cs[t])
           chain == FrameChain(cs[t])
           o == IF a.via = "suite" THEN RestartSuite_exit(a.obj, exc[t], chain)
                ELSE Restart_exit(exc[t], chain)
           seen == IF exc[t] = NoExc \/ exc[t].ty = "InvokeRestart" THEN << >>
                   ELSE Flatten(CallStackItems(cur_handlers, chain))
           recs == CallStackItems(cur_calls, chain)
       IN  /\ last' = [last EXCEPT ![t] =
                          IF exc[t] = NoExc THEN NoEvent
                          ELSE Event("exit", a, exc[t], o, seen, NoEvent)]
           /\ IF o.kind = "retry" /\ recs # << >>
              THEN /\ recs[1].func = "calc" => Len(cs[t]) <= Limit + 1
                   /\ StartCall(t, [cs[t] EXCEPT ![Len(cs[t])].mode = "exiting",
                                                 ![Len(cs[t])].pend = exc[t]],
                                recs[1].invoke, recs[1].func, recs[1].args, "retry")
                   /\ UNCHANGED cur_restarts
              ELSE /\ cur_restarts' = CallStackPop(cur_restarts, chain).stacks
                   /\ cs' = [cs EXCEPT ![t] = Pop(@)]
                   /\ exc' = [exc EXCEPT ![t] =
                                 CASE o.kind = "retry" -> Err("StopIteration")
                                   [] o.kind = "raise" -> o.exc
                                   [] o.kind = "true" -> NoExc
                                   [] o.kind = "false" -> @]
                   /\ UNCHANGED <<ret, cur_calls, call_count>>
    /\ UNCHANGED <<cur_handlers, gen, restarts, default_handlers>>

\* __exit__ goes on after the call retry() made: it returns True when the
\* call returned (Restart.__exit__ drops that), and lets an error of the
\* call through; finally pops
SuiteExitFinish(t) ==
    /\ cs[t] # << >> /\ Top(cs[t]).k = "rs" /\ Top(cs[t]).mode = "exiting"
    /\ cur_restarts' = CallStackPop(cur_restarts, FrameChain(cs[t])).stacks
    /\ cs' = [cs EXCEPT ![t] = Pop(@)]
    /\ exc' = [exc EXCEPT ![t] =
                  IF @ # NoExc THEN @
                  ELSE IF Top(cs[t]).via = "suite" THEN NoExc
                  ELSE Top(cs[t]).pend]
    /\ last' = [last EXCEPT ![t] = NoEvent]
    /\ UNCHANGED <<ret, cur_handlers, cur_calls, call_count, gen, restarts, default_handlers>>

\* ------------------------------------------------------------- user code
\* The user function returns; a generator that returns is finished
Return(t) ==
    /\ Running(t) /\ Len(cs[t]) > 1
    /\ Top(cs[t]).k = "fn"
    /\ cs' = [cs EXCEPT ![t] = Pop(@)]
    /\ gen' = IF Top(cs[t]).func = "check_items" THEN [gen EXCEPT !.st = "done"] ELSE gen
    /\ ret' = [ret EXCEPT ![t] = None]
    /\ last' = [last EXCEPT ![t] = NoEvent]
    /\ UNCHANGED <<exc, cur_restarts, cur_handlers, cur_calls, call_count, restarts, default_handlers>>

\* User code raises an error in the body it is running
Raise(t, ty) ==
    /\ Running(t)
    /\ exc' = [exc EXCEPT ![t] = Err(ty)]
    /\ ret' = [ret EXCEPT ![t] = None]
    /\ last' = [last EXCEPT ![t] = [NoEvent EXCEPT !.op = "raise"]]
    /\ UNCHANGED <<cs, cur_restarts, cur_handlers, cur_calls, call_count, gen, restarts, default_handlers>>

\* An exception leaves a user function; a generator it leaves is finished
Unwind(t) ==
    /\ cs[t] # << >> /\ Len(cs[t]) > 1 /\ exc[t] # NoExc
    /\ Top(cs[t]).k = "fn"
    /\ cs' = [cs EXCEPT ![t] = Pop(@)]
    /\ gen' = IF Top(cs[t]).func = "check_items" THEN [gen EXCEPT !.st = "done"] ELSE gen
    /\ last' = [last EXCEPT ![t] = NoEvent]
    /\ UNCHANGED <<exc, ret, cur_restarts, cur_handlers, cur_calls, call_count, restarts, default_handlers>>

\* ------------------------------------------------------------- generator
\* g.next(): a generator check_items starts, or the suspended one goes on
\* after its yield with the caller's frame as its f_back
GenNext(t) ==
    /\ Running(t)
    /\ gen.st \in {"new", "done", "suspended"}
    /\ Depth(cs[t]) + Len(gen.saved) < Limit + (IF gen.st = "suspended" THEN 1 ELSE 0)
    /\ cs' = [cs EXCEPT ![t] =
                 IF gen.st = "suspended" THEN @ \o gen.saved
                 ELSE Append(@, FnAct(Fresh(Used), "check_items"))]
    /\ gen' = [gen EXCEPT !.st = "running", !.saved = << >>]
    /\ ret' = [ret EXCEPT ![t] = None]
    /\ last' = [last EXCEPT ![t] =
                   [NoEvent EXCEPT !.op = "next",
                                   !.name = IF gen.st = "suspended" THEN "resumed"
                                            ELSE "started"]]
    /\ UNCHANGED <<exc, cur_restarts, cur_handlers, cur_calls, call_count, restarts, default_handlers>>

\* The index of the frame the code on top of the stack runs in
FramePos(stack) ==
    CHOOSE i \in 1 .. Len(stack) :
        /\ stack[i].k \in {"fn", "call"}
        /\ \A j \in (i + 1) .. Len(stack) : stack[j].k \notin {"fn", "call"}

\* yield in the body of the generator: its frame leaves the caller's chain,
\* with the with-blocks it has open
GenYield(t) ==
    /\ Running(t)
    /\ cs[t][FramePos(cs[t])].func = "check_items"
    /\ LET i == FramePos(cs[t]) IN
       /\ gen' = [st |-> "suspended", saved |-> SubSeq(cs[t], i, Len(cs[t])),
                   vis_r |-> CallStackItems(cur_restarts, FrameChain(cs[t])),
                   vis_h |-> CallStackItems(cur_handlers, FrameChain(cs[t]))]
       /\ cs' = [cs EXCEPT ![t] = SubSeq(@, 1, i - 1)]
    /\ ret' = [ret EXCEPT ![t] = None]
    /\ last' = [last EXCEPT ![t] = [NoEvent EXCEPT !.op = "yield"]]
    /\ UNCHANGED <<exc, cur_restarts, cur_handlers, cur_calls, call_count, restarts, default_handlers>>

\* The thread's outermost code catches what reaches it (assertRaises)
Catch(t) ==
    /\ Len(cs[t]) = 1 /\ exc[t] # NoExc
    /\ exc' = [exc EXCEPT ![t] = NoExc]
    /\ last' = [last EXCEPT ![t] = [NoEvent EXCEPT !.op = "catch", !.err = exc[t]]]
    /\ UNCHANGED <<cs, ret, cur_restarts, cur_handlers, cur_calls, call_count, gen, restarts, default_handlers>>

\* User code calls find_restart(name)
FindRestart(t, name) ==
    /\ Running(t)
    /\ ret' = [ret EXCEPT ![t] = None]
    /\ last' = [last EXCEPT ![t] =
                   [NoEvent EXCEPT !.op = "find", !.name = name,
                                   !.sel = find_restart(FrameChain(cs[t]), name)]]
    /\ UNCHANGED <<cs, exc, cur_restarts, cur_handlers, cur_calls, call_count, gen, restarts, default_handlers>>

\* ------------------------------------------------------------- inline definitions
InlineRestarts == {R_my_use_value, R_my_use_value2}
InlineHandlers == {HItem("Handler", <<Handler("TypeError", "my_use_value", "7", "-")>>)}

\* The restarts the program adds to suite s
Added(s) == IF s = InlineSuite THEN InlineRestarts ELSE {R_my_use_value2}

\* What a change of suite s leaves for the next call to remember (history)
Note(s, what) == IF s = InlineSuite THEN what ELSE "-"

\* s.add_restart(r), with s open or not
AddRestart(t, s, r) ==
    /\ Running(t)
    /\ Len(restarts[s]) < Len(RestartSuite(s)) + MaxAdded
    /\ restarts' = [restarts EXCEPT ![s] = add_restart(@, r)]
    /\ last' = [last EXCEPT ![t] =
                   [NoEvent EXCEPT !.op = "add_restart", !.form = s, !.sel = r,
                                   !.name = Note(s, "added")]]
    /\ UNCHANGED <<cs, exc, ret, cur_restarts, cur_handlers, cur_calls, call_count, gen,
                   default_handlers>>

\* s.del_restart(r), s.del_restart(r.func) or s.del_restart(r.name)
DelRestart(t, s, r, by) ==
    /\ Running(t)
    /\ restarts' = [restarts EXCEPT ![s] = del_restart(@, DelKey(r, by))]
    /\ last' = [last EXCEPT ![t] =
                   [NoEvent EXCEPT !.op = "del_restart", !.form = s, !.sel = r,
                                   !.func = by,
                                   !.name = Note(s, IF restarts'[s] # restarts[s]
                                                    THEN "removed" ELSE "absent")]]
    /\ UNCHANGED <<cs, exc, ret, cur_restarts, cur_handlers, cur_calls, call_count, gen,
                   default_handlers>>

\* ------------------------------------------------------------- default handlers
\* The handlers of test_default_handlers: the one assigned to the suite's
\* attribute, and the one of the enclosing with-block
DefaultHandler == HItem("Handler", <<Handler("TypeError", "use_value", "7", "-")>>)
EnclosingHandler == HItem("Handler", <<Handler("TypeError", "use_value", "9", "-")>>)

\* s.default_handlers = h: an attribute of the object is set; no code of the
\* library reads it
SetDefaultHandlers(t, s, h) ==
    /\ Running(t)
    /\ default_handlers' = [default_handlers EXCEPT ![s] = h]
    /\ last' = [last EXCEPT ![t] = [NoEvent EXCEPT !.op = "set_default", !.form = s]]
    /\ UNCHANGED <<cs, exc, ret, cur_restarts, cur_handlers, cur_calls, call_count, gen,
                   restarts>>

\* ------------------------------------------------------------- CallStack alone
\* A program that uses one CallStack object (the table cur_restarts) by
\* itself: functions call each other and return, and push and pop items
\* with no with statement to pair them
StackCall(t) ==
    /\ Running(t) /\ Depth(cs[t]) < MaxDepthThreads
    /\ cs' = [cs EXCEPT ![t] = Append(@, FnAct(Fresh(Used), "calc"))]
    /\ last' = [last EXCEPT ![t] = NoEvent]
    /\ UNCHANGED <<exc, ret, cur_restarts, cur_handlers, cur_calls, call_count, gen,
                   restarts, default_handlers>>

\* stack.push(item) from the running function
StackPush(t, item) ==
    /\ Running(t)
    /\ LET frame == FrameChain(cs[t])[1] IN
       /\ frame \in DOMAIN cur_restarts => Len(cur_restarts[frame]) < MaxItems
       /\ frame \notin DOMAIN cur_restarts => Cardinality(DOMAIN cur_restarts) < MaxItems
       /\ cur_restarts' = CallStackPush(cur_restarts, frame, item)
    /\ last' = [last EXCEPT ![t] = [NoEvent EXCEPT !.op = "push"]]
    /\ UNCHANGED <<cs, exc, ret, cur_handlers, cur_calls, call_count, gen,
                   restarts, default_handlers>>

\* stack.pop() from the running function; n0 is the frame whose list was
\* popped (history)
StackPop(t) ==
    /\ Running(t)
    /\ LET chain == FrameChain(cs[t])
           p == CallStackPop(cur_restarts, chain)
       IN  /\ cur_restarts' = p.stacks
           /\ exc' = [exc EXCEPT ![t] = IF p.ok THEN @ ELSE Err("IndexError")]
           /\ last' = [last EXCEPT ![t] =
                          [NoEvent EXCEPT !.op = "pop",
                                          !.kind = IF p.ok THEN "ok" ELSE "IndexError",
                                          !.n0 = IF p.ok THEN Holding(cur_restarts, chain)[1]
                                                 ELSE 0]]
    /\ UNCHANGED <<cs, ret, cur_handlers, cur_calls, call_count, gen,
                   restarts, default_handlers>>

\* The statements of push and pop, one at a time.  A call of push or pop is
\* an activation "push" or "pop" on the thread's stack; fr is its local
\* frame, obj the item, mode the statement it is at, and via is "orphan" when
\* the list its local frame_stack refers to is no longer the one in the table

\* an identity that only tells how deep the caller is
getframe_by_depth(stack) == Len(FrameChain(stack))

\* _getframe(1) in push and pop: the frame of the caller
getframe(stack) == FrameChain(stack)[1]

\* frame.f_back within the chain of the caller; 0 stands for None
f_back(stack, frame) ==
    LET chain == FrameChain(stack)
        at == {i \in 1 .. Len(chain) : chain[i] = frame}
    IN  IF at = {} THEN 0
        ELSE LET i == CHOOSE j \in at : TRUE
             IN  IF i < Len(chain) THEN chain[i + 1] ELSE 0

\* What the caller of items() gets
Visible(t) == CallStackItems(cur_restarts, FrameChain(cs[t]))

\* The entry of frame is deleted or replaced: a call of another thread that
\* holds its list holds an orphan from now on
Orphan(stack, frame) ==
    [i \in 1 .. Len(stack) |->
        IF /\ stack[i].k \in {"push", "pop"}
           /\ stack[i].fr = frame
           /\ stack[i].mode \in {"append", "remove", "delete"}
        THEN [stack[i] EXCEPT !.via = "orphan"]
        ELSE stack[i]]

InOp(t, k, mode) ==
    /\ cs[t] # << >>
    /\ Top(cs[t]).k = k
    /\ Top(cs[t]).mode = mode

\* push(item) is called: frame = _getframe(offset+1); seen is what the
\* caller saw before the call (history)
PushStart(t, item) ==
    /\ Running(t)
    /\ Len(Visible(t)) < MaxItems
    /\ Cardinality(DOMAIN cur_restarts) < MaxItems + 1
    /\ cs' = [cs EXCEPT ![t] = Append(@, Act("push", getframe(cs[t]), item, "-", None,
                                             "lookup", "-", NoExc, NoItem))]
    /\ last' = [last EXCEPT ![t] = [NoEvent EXCEPT !.op = "push", !.form = item,
                                                   !.kind = "running",
                                                   !.seen = Visible(t)]]
    /\ UNCHANGED <<exc, ret, cur_restarts, cur_handlers, cur_calls, call_count, gen,
                   restarts, default_handlers>>

\* try: frame_stack = self._frame_stacks[frame]
PushLookup(t) ==
    /\ InOp(t, "push", "lookup")
    /\ cs' = [cs EXCEPT ![t][Len(cs[t])].mode =
                 IF Top(cs[t]).fr \in DOMAIN cur_restarts THEN "append" ELSE "create"]
    /\ UNCHANGED <<exc, ret, cur_restarts, cur_handlers, cur_calls, call_count, gen,
                   restarts, default_handlers, last>>

\* except KeyError: self._frame_stacks[frame] = frame_stack = []
PushCreate(t) ==
    /\ InOp(t, "push", "create")
    /\ LET frame == Top(cs[t]).fr IN
       /\ cur_restarts' = IF frame \in DOMAIN cur_restarts
                          THEN [cur_restarts EXCEPT ![frame] = << >>]
                          ELSE cur_restarts @@ (frame :> << >>)
       /\ cs' = [u \in Threads |->
                    IF u = t THEN [cs[t] EXCEPT ![Len(cs[t])].mode = "append"]
                    ELSE Orphan(cs[u], frame)]
    /\ UNCHANGED <<exc, ret, cur_handlers, cur_calls, call_count, gen,
                   restarts, default_handlers, last>>

\* frame_stack.append(item), and push returns
PushAppend(t) ==
    /\ InOp(t, "push", "append")
    /\ LET a == Top(cs[t]) IN
       cur_restarts' = IF a.via = "orphan" THEN cur_restarts
                       ELSE [cur_restarts EXCEPT ![a.fr] = Append(@, a.obj)]
    /\ cs' = [cs EXCEPT ![t] = Pop(@)]
    /\ last' = [last EXCEPT ![t].kind = "ok"]
    /\ UNCHANGED <<exc, ret, cur_handlers, cur_calls, call_count, gen,
                   restarts, default_handlers>>

\* pop() is called: frame = _getframe(1); frame_stack = None
PopStart(t) ==
    /\ Running(t)
    /\ cs' = [cs EXCEPT ![t] = Append(@, Act("pop", getframe(cs[t]), "-", "-", None,
                                             "find", "-", NoExc, NoItem))]
    /\ last' = [last EXCEPT ![t] = [NoEvent EXCEPT !.op = "pop", !.kind = "running",
                                                   !.seen = Visible(t)]]
    /\ UNCHANGED <<exc, ret, cur_restarts, cur_handlers, cur_calls, call_count, gen,
                   restarts, default_handlers>>

\* One turn of the while loop: the lookup of frame, and on KeyError its
\* f_back, or IndexError("stack is empty") when there is none
PopFind(t) ==
    /\ InOp(t, "pop", "find")
    /\ LET frame == Top(cs[t]).fr
           back == f_back(Pop(cs[t]), frame)
       IN  IF frame \in DOMAIN cur_restarts
           THEN /\ cs' = [cs EXCEPT ![t][Len(cs[t])].mode = "remove"]
                /\ UNCHANGED <<exc, last>>
           ELSE IF back # 0
           THEN /\ cs' = [cs EXCEPT ![t][Len(cs[t])].fr = back]
                /\ UNCHANGED <<exc, last>>
           ELSE /\ cs' = [cs EXCEPT ![t] = Pop(@)]
                /\ exc' = [exc EXCEPT ![t] = Err("IndexError")]
                /\ last' = [last EXCEPT ![t].kind = "IndexError"]
    /\ UNCHANGED <<ret, cur_restarts, cur_handlers, cur_calls, call_count, gen,
                   restarts, default_handlers>>

\* frame_stack.pop(): IndexError when the list is empty, as an orphan is
\* (its entry was deleted because it was empty)
PopRemove(t) ==
    /\ InOp(t, "pop", "remove")
    /\ LET a == Top(cs[t]) IN
       IF a.via = "orphan" \/ cur_restarts[a.fr] = << >>
       THEN /\ cs' = [cs EXCEPT ![t] = Pop(@)]
            /\ exc' = [exc EXCEPT ![t] = Err("IndexError")]
            /\ last' = [last EXCEPT ![t].kind = "IndexError"]
            /\ UNCHANGED cur_restarts
       ELSE /\ cur_restarts' = [cur_restarts EXCEPT ![a.fr] = Pop(@)]
            /\ cs' = [cs EXCEPT ![t][Len(cs[t])].mode = "delete"]
            /\ UNCHANGED <<exc, last>>
    /\ UNCHANGED <<ret, cur_handlers, cur_calls, call_count, gen,
                   restarts, default_handlers>>

\* if not frame_stack: del self._frame_stacks[frame], and pop returns; the
\* del of an entry that is gone is a KeyError
PopDelete(t) ==
    /\ InOp(t, "pop", "delete")
    /\ LET a == Top(cs[t])
           empty == a.via = "orphan" \/ cur_restarts[a.fr] = << >>
       IN  IF empty /\ a.fr \notin DOMAIN cur_restarts
           THEN /\ cs' = [cs EXCEPT ![t] = Pop(@)]
                /\ exc' = [exc EXCEPT ![t] = Err("KeyError")]
                /\ last' = [last EXCEPT ![t].kind = "KeyError"]
                /\ UNCHANGED cur_restarts
           ELSE /\ cur_restarts' =
                       IF empty
                       THEN [f \in DOMAIN cur_restarts \ {a.fr} |-> cur_restarts[f]]
                       ELSE cur_restarts
                /\ cs' = [u \in Threads |->
                             IF u = t THEN Pop(cs[t])
                             ELSE IF empty THEN Orphan(cs[u], a.fr) ELSE cs[u]]
                /\ last' = [last EXCEPT ![t].kind = "ok"]
                /\ UNCHANGED exc
    /\ UNCHANGED <<ret, cur_handlers, cur_calls, call_count, gen,
                   restarts, default_handlers>>

\* ------------------------------------------------------------- specification
\* vis_r, vis_h: the suites and the handler items that were visible from the
\* generator's code when it last yielded (history)
NoGen == [st |-> "new", saved |-> << >>, vis_r |-> << >>, vis_h |-> << >>]

InitCommon ==
    /\ exc = [t \in Threads |-> NoExc]
    /\ ret = [t \in Threads |-> None]
    /\ cur_restarts = << >>
    /\ cur_handlers = << >>
    /\ cur_calls = << >>
    /\ call_count = 0
    /\ gen = NoGen
    /\ restarts = [s \in SuiteObjects \cup {InlineSuite} \cup {Wrapper(r) : r \in SingleRestarts}
                       |-> RestartSuite(s)]
    /\ default_handlers = [s \in SuiteObjects \cup {InlineSuite}
                                   \cup {Wrapper(r) : r \in SingleRestarts} |-> NoItem]
    /\ last = [t \in Threads |-> NoEvent]

Init ==
    /\ cs = [t \in Threads |-> IF t = 1 THEN <<FnAct(1, "root")>> ELSE << >>]
    /\ InitCommon

\* The ends of scopes and calls, and the way of an exception
Structural(t) ==
    \/ HandlerExit(t)
    \/ SuiteExit(t)
    \/ SuiteExitFinish(t)
    \/ DispatchFailure(t)
    \/ CallFinish(t)
    \/ Return(t)
    \/ Unwind(t)
    \/ Catch(t)

\* One thread, the whole menu of user code
Next ==
    \/ \E h \in HandlerMenu : EnterHandler(1, h)
    \/ \E s \in SuiteObjects : EnterSuite(1, s)
    \/ \E r \in SingleRestarts : EnterRestart(1, r)
    \/ \E form \in {"free"} \cup OpenSuites(cs[1]) : \E target \in Targets :
          Invoke(1, form, target)
    \/ Raise(1, "ValueError")
    \/ \E name \in {"use_value", "retry"} : FindRestart(1, name)
    \/ Structural(1)

Spec == Init /\ [][Next]_vars

\* Two threads, each with a smaller menu
InitThreads ==
    /\ cs = [t \in Threads |-> <<FnAct(t, "root")>>]
    /\ InitCommon

ThreadHandlers ==
    { HItem("Handler", <<Handler("TypeError", "use_value", "7", "-")>>),
      HItem("Handler", <<Handler("Exception", "skip", None, "-")>>) }

NextThreads ==
    \E t \in Threads :
        \/ \E h \in ThreadHandlers : EnterHandler(t, h)
        \/ EnterSuite(t, "S1")
        \/ \E form \in {"free"} \cup OpenSuites(cs[t]) : Invoke(t, form, <<"div", "'2'">>)
        \/ \E name \in {"use_value"} : FindRestart(t, name)
        \/ HandlerExit(t)
        \/ SuiteExit(t)
        \/ DispatchFailure(t)
        \/ Catch(t)

SpecThreads == InitThreads /\ [][NextThreads]_vars

\* One thread and the generator
NextGen ==
    \/ \E h \in ThreadHandlers : EnterHandler(1, h)
    \/ \E s \in SuiteObjects : EnterSuite(1, s)
    \/ \E form \in {"free"} \cup OpenSuites(cs[1]) : Invoke(1, form, <<"div", "'2'">>)
    \/ \E name \in {"use_value", "skip"} : FindRestart(1, name)
    \/ GenNext(1)
    \/ GenYield(1)
    \/ HandlerExit(1)
    \/ SuiteExit(1)
    \/ DispatchFailure(1)
    \/ Return(1)
    \/ Unwind(1)
    \/ Catch(1)

SpecGen == Init /\ [][NextGen]_vars

\* One thread that adds restarts to suites and removes them, as in
\* test_inline_definitions
NextInline ==
    \/ \E h \in InlineHandlers : EnterHandler(1, h)
    \/ \E s \in {InlineSuite, "S1"} : EnterSuite(1, s)
    \/ \E s \in {InlineSuite, "S1"} : \E r \in Added(s) : AddRestart(1, s, r)
    \/ \E s \in {InlineSuite, "S1"} : \E r \in Added(s) :
          \E by \in {"instance", "function", "name"} : DelRestart(1, s, r, by)
    \/ \E form \in {"free"} \cup OpenSuites(cs[1]) : Invoke(1, form, <<"div", "'2'">>)
    \/ FindRestart(1, "my_use_value")
    \/ HandlerExit(1)
    \/ SuiteExit(1)
    \/ DispatchFailure(1)
    \/ Catch(1)

SpecInline == Init /\ [][NextInline]_vars

\* One thread whose only errors are those of the target callit, under a
\* handler that answers ValueError with retry (test_retry), with calls
\* nested in the target calc; the suite S2, which has no retry, is also
\* called when its block is not open
RetryHandlers == {HItem("Handler", <<Handler("ValueError", "retry", None, "-")>>)}
RetryTargets == {<<"calc", None>>} \cup {<<"callit", ToString(v)>> : v \in 1 .. MaxFails}

NextRetry ==
    \/ \E h \in RetryHandlers : EnterHandler(1, h)
    \/ \E s \in SuiteObjects : EnterSuite(1, s)
    \/ \E form \in {"free", "S2"} \cup OpenSuites(cs[1]) : \E target \in RetryTargets :
          Invoke(1, form, target)
    \/ Structural(1)

SpecRetry == Init /\ [][NextRetry]_vars

\* One thread that runs the statements of test_default_handlers
NextDefault ==
    \/ EnterHandler(1, EnclosingHandler)
    \/ \E s \in SuiteObjects : EnterSuite(1, s)
    \/ \E s \in OpenSuites(cs[1]) : SetDefaultHandlers(1, s, DefaultHandler)
    \/ \E form \in {"free"} \cup OpenSuites(cs[1]) :
          \E target \in {<<"div", "3">>, <<"div", "'2'">>} : Invoke(1, form, target)
    \/ HandlerExit(1)
    \/ SuiteExit(1)
    \/ DispatchFailure(1)
    \/ CallFinish(1)
    \/ Catch(1)

SpecDefault == Init /\ [][NextDefault]_vars

\* One thread that uses the CallStack by itself; a function that returns
\* leaves the items it pushed and did not pop in the table
NextCallStack ==
    \/ StackCall(1)
    \/ \E item \in SuiteObjects : StackPush(1, item)
    \/ StackPop(1)
    \/ Return(1)
    \/ Catch(1)

SpecCallStack == Init /\ [][NextCallStack]_vars

\* Two threads that use one CallStack, statement by statement; each pushes
\* an item of its own
ItemOf(t) == IF t = 1 THEN "S1" ELSE "S2"

NextSteps ==
    \E t \in Threads :
        \/ Depth(cs[t]) < MaxDepthSteps /\ StackCall(t)
        \/ PushStart(t, ItemOf(t))
        \/ PushLookup(t)
        \/ PushCreate(t)
        \/ PushAppend(t)
        \/ PopStart(t)
        \/ PopFind(t)
        \/ PopRemove(t)
        \/ PopDelete(t)
        \/ Return(t)
        \/ Unwind(t)
        \/ Catch(t)

SpecSteps == InitThreads /\ [][NextSteps]_vars

\* ------------------------------------------------- what is in dynamic scope
\* The with-blocks a thread has entered and not left, read off its
\* interpreter stack, innermost first
RECURSIVE ScopeHandlers(_)
ScopeHandlers(stack) ==
    IF stack = << >> THEN << >>
    ELSE (IF Top(stack).k = "hs" THEN Top(stack).h.handlers ELSE << >>)
         \o ScopeHandlers(Pop(stack))

RECURSIVE ScopeSuites(_)
ScopeSuites(stack) ==
    IF stack = << >> THEN << >>
    ELSE (IF Top(stack).k = "rs" THEN <<Top(stack).obj>> ELSE << >>)
         \o ScopeSuites(Pop(stack))

HasNamed(s, name) == \E j \in 1 .. Len(Members(s)) : Members(s)[j].name = name

\* The restart called name of the innermost open suite that has one
ScopeFind(stack, name) ==
    LET ss == ScopeSuites(stack)
        having == {i \in 1 .. Len(ss) : HasNamed(ss[i], name)}
    IN  IF having = {} THEN NoRestart
        ELSE LET i == CHOOSE x \in having : \A y \in having : x <= y
                 m == Members(ss[i])
                 j == CHOOSE x \in 1 .. Len(m) :
                          /\ m[x].name = name
                          /\ \A y \in 1 .. (x - 1) : m[y].name # name
             IN  m[j]

NoHandler == Handler("-", "-", None, "-")

\* The nearest handler in hs that matches e and signals a restart
Resolver(hs, e) ==
    LET signalling == {i \in 1 .. Len(hs) :
                          IsInstance(e, hs[i].exc_type) /\ hs[i].func # "callback"}
    IN  IF signalling = {} THEN NoHandler
        ELSE hs[CHOOSE x \in signalling : \A y \in signalling : x <= y]

\* The dispatcher of form could invoke r itself
Owns(form, r) == form = "free" \/ InSeq(r, Members(form))

\* ------------------------------------------------------------------ C1
\* C1: when the target of a dispatcher call raises E and the nearest handler
\* in scope that matches E signals use_value with v, and the restart that
\* resolves is use_value (one the dispatcher may invoke), the target's frame
\* is gone and the dispatcher call returns v
C1_UseValueReturns ==
    \A t \in Threads :
        LET e == last[t]
            h == Resolver(ScopeHandlers(cs[t]), e.err)
            r == ScopeFind(cs[t], "use_value")
        IN  (/\ e.op = "dispatch"
             /\ h.func = "use_value"
             /\ r # NoRestart
             /\ Owns(e.form, r))
            => (/\ exc[t] = NoExc
                /\ ret[t] = h.val
                /\ e.sel = r
                /\ e.invoked = 1
                /\ e.kind = "return")

C1_Witness ==
    /\ last[1].op = "dispatch"
    /\ last[1].err = Err("TypeError")
    /\ last[1].form \in SuiteObjects
    /\ Resolver(ScopeHandlers(cs[1]), last[1].err).func = "use_value"
    /\ last[1].sel.func = "use_value"
    /\ ret[1] = "7"
    /\ exc[1] = NoExc

\* ------------------------------------------------------------------ C2
\* C2: when the target raises E and no handler in scope resolves it (none
\* matches, or every matching reaction returns normally), the dispatcher
\* re-raises the same E and invokes no restart
C2_UnhandledReraised ==
    \A t \in Threads :
        LET e == last[t]
        IN  (/\ e.op = "dispatch"
             /\ Resolver(ScopeHandlers(cs[t]), e.err) = NoHandler)
            => (/\ exc[t] = e.err
                /\ e.kind = "raise"
                /\ e.invoked = 0
                /\ e.sel = NoRestart)

C2_Witness ==
    /\ last[1].op = "dispatch"
    /\ last[1].err = Err("TypeError")
    /\ Resolver(ScopeHandlers(cs[1]), last[1].err) = NoHandler
    /\ last[1].ran >= 1
    /\ exc[1] = Err("TypeError")

\* ------------------------------------------------------------------ C3
\* C3: when a handler signals a restart by a name for which no restart is in
\* scope, MissingRestartError carrying that name is raised and no restart is
\* invoked
C3_MissingRestart ==
    \A t \in Threads :
        LET e == last[t]
            h == Resolver(ScopeHandlers(cs[t]), e.err)
        IN  (/\ e.op = "dispatch"
             /\ h # NoHandler
             /\ ScopeFind(cs[t], h.func) = NoRestart)
            => (/\ exc[t] = MissingRestartError(h.func)
                /\ e.kind = "raise"
                /\ e.invoked = 0)

C3_Witness ==
    /\ last[1].op = "dispatch"
    /\ last[1].err = Err("ValueError")
    /\ Resolver(ScopeHandlers(cs[1]), last[1].err).func = "retry"
    /\ ScopeSuites(cs[1]) # << >>
    /\ ScopeFind(cs[1], "retry") = NoRestart
    /\ exc[1] = MissingRestartError("retry")

\* ------------------------------------------------------------------ C4
AllActivations == cs[1] \o cs[2] \o gen.saved

Open(k) == SelectSeq(AllActivations, LAMBDA a : a.k = k)

OpenAt(k, f) == SelectSeq(Open(k), LAMBDA a : a.fr = f)

Pushed(a) ==
    CASE a.k = "hs" -> a.h
      [] a.k = "rs" -> a.obj
      [] a.k = "call" -> [invoke |-> a.obj, func |-> a.func, args |-> a.arg]

\* table holds, frame by frame, what the open scopes of kind k pushed
Mirrors(table, k) ==
    /\ DOMAIN table = FramesOf(Open(k))
    /\ \A f \in DOMAIN table :
          table[f] = [i \in 1 .. Len(OpenAt(k, f)) |-> Pushed(OpenAt(k, f)[i])]

\* C4: every restart scope, handler scope and dispatcher call pops exactly
\* what it pushed, however it is left: the three tables hold the entries of
\* the scopes and calls still open and nothing else, so they hold nothing
\* for a call chain whose outermost scope has been left
C4_StacksBalanced ==
    /\ Mirrors(cur_restarts, "rs")
    /\ Mirrors(cur_handlers, "hs")
    /\ Mirrors(cur_calls, "call")

C4_Witness ==
    /\ last[1].op = "catch"
    /\ last[1].err = Err("RuntimeError")
    /\ Len(cs[1]) = 1
    /\ cur_restarts = << >>
    /\ cur_handlers = << >>
    /\ cur_calls = << >>

\* ------------------------------------------------------------------ C5
\* The call callit(v) of user code has failed, and the nearest handler that
\* matches its ValueError signals retry, found in a suite whose dispatcher
\* may invoke it
RetryAlways(t) ==
    LET e == last[t]
        r == ScopeFind(cs[t], "retry")
    IN  /\ e.func = "callit"
        /\ Resolver(ScopeHandlers(cs[t]), Err("ValueError")).func = "retry"
        /\ r # NoRestart
        /\ Owns(e.form, r)

\* C5: a target that fails N times and then succeeds, called through a
\* dispatcher that has retry, under a handler that always signals retry, is
\* called N+1 times with its first arguments, the reaction runs N times, and
\* the outermost dispatcher call returns the value of the call that succeeded
C5_RetryUntilSuccess ==
    \A t \in Threads :
        LET e == last[t]
        IN  /\ (e.op = "dispatch" /\ RetryAlways(t)) => e.kind = "retry"
            /\ (e.op = "finish" /\ e.via = "user" /\ RetryAlways(t))
               => (/\ exc[t] = NoExc
                   /\ ret[t] = e.arg
                   /\ e.calls = e.n0 + 1
                   /\ e.reacts = e.n0)

C5_Witness ==
    /\ last[1].op = "finish"
    /\ last[1].via = "user"
    /\ last[1].form \in SuiteObjects
    /\ RetryAlways(1)
    /\ last[1].n0 = MaxFails
    /\ last[1].calls = MaxFails + 1
    /\ last[1].reacts = MaxFails
    /\ ret[1] = ToString(MaxFails)

\* ------------------------------------------------------------------ C6
\* The dispatcher call of suite form that thread t made directly in the body
\* of that suite's with-block has just ended with skip invoked
SkippedInBlock(t) ==
    /\ last[t].op = "dispatch"
    /\ last[t].sel.func = "skip"
    /\ last[t].invoked = 1
    /\ cs[t] # << >>
    /\ Top(cs[t]).k = "rs"
    /\ Top(cs[t]).via = "suite"
    /\ Top(cs[t]).obj = last[t].form

\* C6: inside with restarts(skip, ...) as invoke, when invoke(target) fails
\* and a handler resolves the error by skip, nothing more of the body runs,
\* and the next thing the thread does is leave the block with no error
\* pending, going on after it
C6_SkipLeavesBlock ==
    [][\A t \in Threads :
          SkippedInBlock(t)
          => (/\ ~Running(t)
              /\ cs'[t] # cs[t]
                 => (/\ cs'[t] = Pop(cs[t])
                     /\ exc'[t] = NoExc
                     /\ Running(t)'))]_vars

C6_Witness ==
    /\ last[1].op = "exit"
    /\ last[1].via = "suite"
    /\ last[1].err.ty = "InvokeRestart"
    /\ last[1].err.r = R_skip
    /\ last[1].form = "S1"
    /\ last[1].invoked = 1
    /\ exc[1] = NoExc
    /\ Running(1)

\* ------------------------------------------------------------------ C7
\* The dispatcher invoked a restart and got the NoValue sentinel
GotNoValue(t) ==
    /\ last[t].op = "dispatch"
    /\ last[t].invoked = 1
    /\ InvokeRestart_invoke(InvokeRestart(last[t].sel, None, "-")).kind = "value"
    /\ InvokeRestart_invoke(InvokeRestart(last[t].sel, None, "-")).val = NoValue

C8_InnermostWins ==
    \A t \in Threads :
        /\ cs[t] # << >>
           => \A name \in RestartNames :
                 find_restart(FrameChain(cs[t]), name) = ScopeFind(cs[t], name)
        /\ last[t].op = "find" => last[t].sel = ScopeFind(cs[t], last[t].name)
        /\ (last[t].op = "dispatch" /\ last[t].sel # NoRestart)
           => last[t].sel = ScopeFind(cs[t], last[t].sel.name)

C8_Witness ==
    /\ last[1].op = "find"
    /\ last[1].name = "use_value"
    /\ ScopeSuites(cs[1]) = <<"S2", "S1">>
    /\ last[1].sel = R_use_value2

\* ------------------------------------------------------------------ C9
\* What the dispatcher call thread t has just ended must come to, worked out
\* from the with-blocks that thread itself has open
Expected(t) ==
    LET e == last[t]
        h == Resolver(ScopeHandlers(cs[t]), e.err)
        r == ScopeFind(cs[t], h.func)
    IN  IF h = NoHandler THEN [kind |-> "raise", exc |-> e.err, val |-> None]
        ELSE IF r = NoRestart
        THEN [kind |-> "raise", exc |-> MissingRestartError(h.func), val |-> None]
        ELSE IF ~Owns(e.form, r) \/ r.func = "skip"
        THEN [kind |-> "raise", exc |-> InvokeRestart(r, h.val, h.ety), val |-> None]
        ELSE CASE r.func = "use_value" -> [kind |-> "return", exc |-> NoExc, val |-> h.val]
               [] r.func = "raise_error" -> [kind |-> "raise", exc |-> Err(h.ety), val |-> None]
               [] r.func = "retry" -> [kind |-> "retry", exc |-> NoExc, val |-> None]

\* C9: of two threads that run interleaved, neither is given by find_restart
\* a restart the other pushed, nor has a dispatcher call of one consulted a
\* handler of the other: what a dispatcher call comes to depends on the
\* handlers and restarts of its own thread only
C9_ThreadsIsolated ==
    \A t \in Threads :
        /\ \A name \in RestartNames :
              find_restart(FrameChain(cs[t]), name) = ScopeFind(cs[t], name)
        /\ last[t].op = "find" => last[t].sel = ScopeFind(cs[t], last[t].name)
        /\ last[t].op = "dispatch"
           => (/\ last[t].seen = ScopeHandlers(cs[t])
               /\ last[t].kind = Expected(t).kind
               /\ exc[t] = Expected(t).exc
               /\ last[t].kind = "return" => ret[t] = Expected(t).val)

C9_Witness ==
    /\ last[1].op = "dispatch"
    /\ ScopeHandlers(cs[1]) = << >>
    /\ ScopeSuites(cs[1]) = << >>
    /\ exc[1] = Err("TypeError")
    /\ Resolver(ScopeHandlers(cs[2]), Err("TypeError")).func = "use_value"
    /\ ScopeSuites(cs[2]) = <<"S1">>
    /\ last[2].op = "dispatch"
    /\ ret[2] = "7"

\* ----------------------------------------------------------------- C10
\* The part of the stack that belongs to the running generator
GenPart(stack) ==
    LET at == {i \in 1 .. Len(stack) : stack[i].func = "check_items"}
    IN  IF at = {} THEN << >>
        ELSE SubSeq(stack, CHOOSE i \in at : TRUE, Len(stack))

\* C10: while the generator is suspended at a yield inside a suite it has
\* entered, code outside it is given none of that suite's restarts
\* (find_restart is None unless a suite of the caller has the name); once it
\* is resumed its own code is given them again
C10_SuspendedSuiteHidden ==
    /\ gen.st = "suspended"
       => /\ \A name \in RestartNames :
                find_restart(FrameChain(cs[1]), name) = ScopeFind(cs[1], name)
          /\ last[1].op = "find" => last[1].sel = ScopeFind(cs[1], last[1].name)
    /\ (last[1].op = "next" /\ last[1].name = "resumed")
       => \A i \in 1 .. Len(ScopeSuites(GenPart(cs[1]))) :
             \A j \in 1 .. Len(Members(ScopeSuites(GenPart(cs[1]))[i])) :
                LET name == Members(ScopeSuites(GenPart(cs[1]))[i])[j].name
                IN  /\ find_restart(FrameChain(cs[1]), name) # NoRestart
                    /\ find_restart(FrameChain(cs[1]), name)
                          = ScopeFind(GenPart(cs[1]), name)

C10_Witness ==
    /\ gen.st = "suspended"
    /\ ScopeSuites(gen.saved) = <<"S1">>
    /\ ScopeSuites(cs[1]) = << >>
    /\ last[1].op = "find"
    /\ last[1].name = "skip"
    /\ last[1].sel = NoRestart

\* The generator has gone on after a yield inside its suite and finds the
\* restart of that suite
C10_Resumed ==
    /\ last[1].op = "next"
    /\ last[1].name = "resumed"
    /\ ScopeSuites(GenPart(cs[1])) = <<"S1">>
    /\ ScopeSuites(cs[1]) = <<"S1">>
    /\ find_restart(FrameChain(cs[1]), "skip") = R_skip

\* ----------------------------------------------------------------- C11
\* The generator has just been resumed
Resumed == last[1].op = "next" /\ last[1].name = "resumed"

\* C11 as stated: after the generator is resumed, the restarts and the
\* handlers visible from inside it are those that were visible from inside it
\* when it suspended, whatever ran in the meantime
C11_VisibleSetKept ==
    Resumed
    => (/\ CallStackItems(cur_restarts, FrameChain(cs[1])) = gen.vis_r
        /\ CallStackItems(cur_handlers, FrameChain(cs[1])) = gen.vis_h)

\* ----------------------------------------------------------------- C12
\* C12: a suite called as a dispatcher invokes the restart a handler signalled
\* only when that restart is a member of the suite itself; for a restart of
\* another suite it invokes nothing and the signal leaves the call
C12_OnlyOwnRestarts ==
    \A t \in Threads :
        LET e == last[t]
            h == Resolver(ScopeHandlers(cs[t]), e.err)
            r == ScopeFind(cs[t], h.func)
        IN  (e.op = "dispatch" /\ e.form # "free")
            => (/\ e.invoked = 1 => InSeq(e.sel, Members(e.form))
                /\ (r # NoRestart /\ InSeq(r, Members(e.form)))
                   => (e.invoked = 1 /\ e.sel = r)
                /\ (r # NoRestart /\ ~InSeq(r, Members(e.form)))
                   => (/\ e.invoked = 0
                       /\ e.kind = "raise"
                       /\ exc[t] = InvokeRestart(r, h.val, h.ety)))

C12_Witness ==
    /\ last[1].op = "dispatch"
    /\ last[1].form = "S2"
    /\ last[1].err = Err("TypeError")
    /\ ScopeSuites(cs[1]) = <<"S1", "S2">>
    /\ last[1].invoked = 0
    /\ exc[1] = InvokeRestart(R_use_value, "7", "-")

\* ----------------------------------------------------------------- C13
\* The with-block of a suite has just been left with the signal of one of
\* the suite's restarts, a use_value, arriving from a dispatcher call that
\* did not own it: the owning suite has invoked the restart
OwnerResolved(t) ==
    /\ last[t].op = "exit"
    /\ last[t].err.ty = "InvokeRestart"
    /\ last[t].err.r.func = "use_value"
    /\ last[t].invoked = 1

\* C13 as stated: when a handler signals a restart owned by an enclosing
\* suite, not by the suite of the failing call, the owning suite executes the
\* restart, the error is suppressed, and the value the restart returns is the
\* result of the call that failed
C13_ValueSupplied ==
    \A t \in Threads :
        OwnerResolved(t) => (exc[t] = NoExc /\ ret[t] = last[t].err.val)

\* What the code does there: the error is suppressed and no value comes back
C13_ValueDropped ==
    \A t \in Threads :
        OwnerResolved(t) => (exc[t] = NoExc /\ ret[t] = None)

\* ----------------------------------------------------------------- C14
\* C14 as stated: a signal raised by a handler for a restart visible where
\* the call failed is consumed by a dispatcher or by the exit of the block
\* that owns the restart, be it the block of a RestartSuite or of a single
\* Restart: while it propagates, the block that owns its restart is still open
C14_SignalStaysInside ==
    \A t \in Threads :
        exc[t].ty = "InvokeRestart"
        => \E i \in 1 .. Len(cs[t]) :
              /\ cs[t][i].k = "rs"
              /\ InSeq(exc[t].r, Members(cs[t][i].obj))

\* ----------------------------------------------------------------- C15
\* table is what is left of before when the newest item under frame f, which
\* is item, has been removed
PoppedOne(before, table, f, item) ==
    /\ f \in DOMAIN before
    /\ before[f] = Append(IF f \in DOMAIN table THEN table[f] ELSE << >>, item)
    /\ DOMAIN table \in {DOMAIN before, DOMAIN before \ {f}}
    /\ \A g \in DOMAIN before \ {f} : g \in DOMAIN table /\ table[g] = before[g]

\* C15: leaving the block of a Handler or a HandlerSuite suppresses nothing:
\* what propagates through the block, error or signal, propagates unchanged
\* after it, and all the exit does is pop the block's entry off the handlers
C15_HandlerExitTransparent ==
    [][\A t \in Threads :
          (/\ cs[t] # << >>
           /\ Top(cs[t]).k = "hs"
           /\ cs'[t] = Pop(cs[t]))
          => (/\ exc'[t] = exc[t]
              /\ PoppedOne(cur_handlers, cur_handlers', Top(cs[t]).fr, Top(cs[t]).h)
              /\ UNCHANGED <<ret, cur_restarts, cur_calls, call_count, gen, restarts, default_handlers>>)]_vars

C15_Witness ==
    /\ last[1].op = "handler_exit"
    /\ last[1].err.ty = "InvokeRestart"
    /\ exc[1] = last[1].err
    /\ cur_handlers = << >>

\* ----------------------------------------------------------------- C16
\* The positions in hs of the handlers whose type matches e
Matching(hs, e) == {i \in 1 .. Len(hs) : IsInstance(e, hs[i].exc_type)}

\* The position of the first handler in hs that matches e and names a
\* restart, 0 when every matching one is a callback that returns
FirstSignal(hs, e) ==
    LET s == {i \in Matching(hs, e) : hs[i].func # "callback"}
    IN  IF s = {} THEN 0 ELSE CHOOSE x \in s : \A y \in s : x <= y

\* C16: a failed dispatcher call tries the handlers of the open blocks from
\* the innermost block outwards and, within a HandlerSuite, in the order they
\* were given; a matching callback that returns leaves the error to the next
\* one; the first handler that signals is the last one run, and the restart
\* it names decides what the call comes to
C16_NearestFirst ==
    \A t \in Threads :
        LET e == last[t]
            hs == ScopeHandlers(cs[t])
            k == FirstSignal(hs, e.err)
        IN  e.op = "dispatch"
            => (/\ e.seen = hs
                /\ k = 0 => (/\ e.ran = Cardinality(Matching(hs, e.err))
                             /\ e.invoked = 0
                             /\ exc[t] = e.err)
                /\ k # 0 => (/\ e.ran = Cardinality({i \in Matching(hs, e.err) : i <= k})
                             /\ ScopeFind(cs[t], hs[k].func) # NoRestart
                                => (/\ e.sel = ScopeFind(cs[t], hs[k].func)
                                    /\ e.kind = Expected(t).kind
                                    /\ e.kind # "retry" => exc[t] = Expected(t).exc
                                    /\ e.kind = "return" => ret[t] = hs[k].val)))

C16_Witness ==
    /\ last[1].op = "dispatch"
    /\ last[1].err = Err("ValueError")
    /\ Len(last[1].seen) = 3
    /\ last[1].seen[1].func = "callback"
    /\ last[1].seen[2].func = "raise_error"
    /\ last[1].seen[3].func = "retry"
    /\ last[1].ran = 2
    /\ last[1].sel = R_raise_error
    /\ exc[1] = Err("RuntimeError")

\* ----------------------------------------------------------------- C17
\* Thread t, running, takes a step that is not a step of its stack: a with
\* statement whose __enter__ raised
EnterRefused(t) ==
    /\ cs[t] # << >> /\ Top(cs[t]).k # "call"
    /\ exc[t] = NoExc /\ exc'[t].ty = "MissingRestartError"
    /\ cs'[t] = cs[t]

\* C17: a Handler that names a restart looks nothing up when it is made or
\* when its block is entered (entering never fails for want of the restart);
\* the name is looked up when the handler handles an error, among the suites
\* open around the failing dispatcher call at that time, so a suite entered
\* inside the handler's block provides the restart
C17_ResolvedWhenHandling ==
    /\ [][\A t \in Threads : ~EnterRefused(t)]_vars
    /\ [](\A t \in Threads :
            LET e == last[t]
                h == Resolver(ScopeHandlers(cs[t]), e.err)
                now == ScopeFind(cs[t], h.func)
            IN  (e.op = "dispatch" /\ h # NoHandler)
                => (/\ now # NoRestart => e.sel = now
                    /\ now = NoRestart => exc[t] = MissingRestartError(h.func)))

\* A handler for use_value entered with no suite open, a suite with use_value
\* entered inside its block, and a failed call that got the handler's value
C17_Witness ==
    /\ last[1].op = "dispatch"
    /\ last[1].invoked = 1
    /\ last[1].sel = R_use_value
    /\ ret[1] = "7"
    /\ \E i \in 1 .. Len(cs[1]) :
          /\ cs[1][i].k = "hs"
          /\ cs[1][i].h = HItem("Handler", <<Handler("TypeError", "use_value", "7", "-")>>)
          /\ \A m \in 1 .. i : cs[1][m].k # "rs"
          /\ \E j \in (i + 1) .. Len(cs[1]) : cs[1][j].k = "rs" /\ cs[1][j].obj = "S1"

\* ----------------------------------------------------------------- C18
\* Thread t starts a dispatcher call in this step
CallStarts(t) ==
    /\ Len(cs'[t]) > Len(cs[t])
    /\ cs'[t][Len(cs[t]) + 1].k = "call"

\* The dispatcher call on top of thread t's stack is over after this step
CallEnds(t) ==
    /\ cs[t] # << >> /\ Top(cs[t]).k = "call"
    /\ cs'[t] = Pop(cs[t])

\* C18: a dispatcher call, of invoke or of a suite, pushes one call record
\* (under its own frame, which holds no other) when it starts and takes that
\* record off again when it is over, whether the target returned, a restart's
\* value was returned, the error was raised again, a signal left the call or
\* MissingRestartError was raised; no other step touches the call records,
\* so they are after the call what they were before it
C18_CallRecordReleased ==
    [][\A t \in Threads :
          /\ CallStarts(t)
             => LET c == cs'[t][Len(cs[t]) + 1]
                IN  /\ c.fr \notin DOMAIN cur_calls
                    /\ DOMAIN cur_calls' = DOMAIN cur_calls \cup {c.fr}
                    /\ cur_calls'[c.fr] = <<Pushed(c)>>
                    /\ \A g \in DOMAIN cur_calls : cur_calls'[g] = cur_calls[g]
          /\ CallEnds(t)
             => (/\ PoppedOne(cur_calls, cur_calls', Top(cs[t]).fr, Pushed(Top(cs[t])))
                 /\ DOMAIN cur_calls' = DOMAIN cur_calls \ {Top(cs[t]).fr})
          /\ (\A u \in Threads : ~CallStarts(u) /\ ~CallEnds(u))
             => cur_calls' = cur_calls]_vars

\* A call inside another call's target has ended with MissingRestartError,
\* and the records are those of the outer call alone
C18_Witness ==
    /\ last[1].op = "dispatch"
    /\ exc[1].ty = "MissingRestartError"
    /\ Len(Open("call")) = 1
    /\ \E f \in Frames : cur_calls = (f :> <<Pushed(Open("call")[1])>>)

\* ----------------------------------------------------------------- C19
\* Some suite thread t has open has, at this moment, a restart called name
Provided(t, name) ==
    \E i \in 1 .. Len(cs[t]) :
        /\ cs[t][i].k = "rs"
        /\ \E j \in 1 .. Len(restarts[cs[t][i].obj]) : restarts[cs[t][i].obj][j].name = name

\* C19: a restart added with add_restart to a suite whose block is open is
\* found by its name at once and by the next dispatcher call, the block not
\* being entered again; after del_restart, given the instance, the function
\* or the name, the suite has no restart left that the argument stands for,
\* and a handler naming a restart that no open suite has any more gets
\* MissingRestartError
C19_AddedAndRemoved ==
    \A t \in Threads :
        LET e == last[t]
            chain == FrameChain(cs[t])
            h == Resolver(ScopeHandlers(cs[t]), e.err)
        IN  /\ (e.op = "add_restart" /\ e.form \in OpenSuites(cs[t]))
               => (/\ restarts[e.form][Len(restarts[e.form])] = e.sel
                   /\ find_restart(chain, e.sel.name) # NoRestart
                   /\ find_restart(chain, e.sel.name).name = e.sel.name
                   /\ ScopeSuites(cs[t])[1] = e.form
                      => InSeq(find_restart(chain, e.sel.name), restarts[e.form]))
            /\ e.op = "del_restart"
               => (/\ \A j \in 1 .. Len(restarts[e.form]) :
                         /\ e.func = "instance" => restarts[e.form][j] # e.sel
                         /\ e.func = "function" => restarts[e.form][j].func # e.sel.func
                         /\ e.func = "name" => restarts[e.form][j].name # e.sel.name
                   /\ e.func = "name"
                      => \/ find_restart(chain, e.sel.name) = NoRestart
                         \/ ~InSeq(find_restart(chain, e.sel.name), restarts[e.form]))
            /\ (e.op = "dispatch" /\ h # NoHandler)
               => (/\ Provided(t, h.func)
                      => (/\ e.sel.name = h.func
                          /\ e.sel = find_restart(chain, h.func)
                          /\ Owns(e.form, e.sel) => (e.invoked = 1 /\ ret[t] = h.val))
                   /\ ~Provided(t, h.func)
                      => (/\ exc[t] = MissingRestartError(h.func)
                          /\ e.invoked = 0))

\* The call made right after the inline suite, open since before, lost its
\* last my_use_value: the handler gets MissingRestartError
C19_Witness ==
    /\ last[1].op = "dispatch"
    /\ last[1].name = "removed"
    /\ ScopeSuites(cs[1]) = <<InlineSuite>>
    /\ restarts[InlineSuite] = << >>
    /\ exc[1] = MissingRestartError("my_use_value")

\* The call made right after a restart was added to the inline suite, open
\* at the time, came to the handler's value through that restart
C19_AddedResolves ==
    /\ last[1].op = "dispatch"
    /\ last[1].name = "added"
    /\ ScopeSuites(cs[1]) = <<InlineSuite>>
    /\ last[1].sel = R_my_use_value
    /\ last[1].invoked = 1
    /\ ret[1] = "7"

\* ----------------------------------------------------------------- C20
\* What is propagating after a with statement whose __exit__ came to o while
\* e was propagating
AfterWith(o, e) ==
    CASE o.kind = "raise" -> o.exc
      [] o.kind = "true" -> NoExc
      [] o.kind = "false" -> e
      [] o.kind = "retry" -> Err("StopIteration")

\* Thread t leaves the block of a `with Restart(r)` in this step
SingleExits(t) ==
    /\ cs[t] # << >>
    /\ Top(cs[t]).k = "rs" /\ Top(cs[t]).via = "single" /\ Top(cs[t]).mode = "open"
    /\ cs'[t] = Pop(cs[t])

\* C20 as stated: the block of `with Restart(r)` is left the way the block
\* of `with RestartSuite(r)` is: the same suite is popped and the same
\* exception, or none, is propagating afterwards
C20_SingleLikeSuite ==
    [][\A t \in Threads :
          SingleExits(t)
          => LET chain == FrameChain(cs[t])
                 o == RestartSuite_exit(Top(cs[t]).obj, exc[t], chain)
             IN  /\ cur_restarts' = CallStackPop(cur_restarts, chain).stacks
                 /\ exc'[t] = AfterWith(o, exc[t])]_vars

\* The part of it that holds: the same suite is popped, and what is left
\* propagating differs only where the suite's __exit__ returns True
C20_SinglePopsLikeSuite ==
    [][\A t \in Threads :
          SingleExits(t)
          => LET chain == FrameChain(cs[t])
                 o == RestartSuite_exit(Top(cs[t]).obj, exc[t], chain)
             IN  /\ cur_restarts' = CallStackPop(cur_restarts, chain).stacks
                 /\ exc'[t] = IF o.kind = "true" THEN exc[t] ELSE AfterWith(o, exc[t])]_vars

\* ----------------------------------------------------------------- C21
\* The retry restart has just been invoked for thread t, by a dispatcher's
\* except clause or by the __exit__ of the suite that has it
RetryInvoked(t) ==
    /\ last[t].op \in {"dispatch", "exit"}
    /\ last[t].sel.func = "retry"
    /\ last[t].invoked = 1

\* C21 as stated: whenever retry is invoked for a failed dispatcher call,
\* whichever suite has the retry restart, the failed call is made again: a
\* call of the target that failed, callit
C21_RetryCallsFailedAgain ==
    \A t \in Threads :
        RetryInvoked(t)
        => (/\ cs[t] # << >>
            /\ Top(cs[t]).k = "call"
            /\ Top(cs[t]).via = "retry"
            /\ Top(cs[t]).func = "callit")

\* What holds: when the dispatcher of the failed call invokes retry itself,
\* the call made again has the form, the target and the arguments of the
\* failed call
C21_RetryInDispatcher ==
    \A t \in Threads :
        (RetryInvoked(t) /\ last[t].op = "dispatch")
        => (/\ Top(cs[t]).k = "call"
            /\ Top(cs[t]).via = "retry"
            /\ Top(cs[t]).obj = last[t].form
            /\ Top(cs[t]).func = last[t].func
            /\ Top(cs[t]).arg = last[t].arg)

\* ----------------------------------------------------------------- C22
\* The target of the suite-form call on top of thread t's stack has failed
\* and this step is the call's except clause
SuiteCallFails(t) ==
    /\ cs[t] # << >>
    /\ Top(cs[t]).k = "call" /\ Top(cs[t]).mode = "target"
    /\ Top(cs[t]).obj # "free"
    /\ IsInstance(exc[t], "Exception")
    /\ cs'[t] # cs[t]

\* C22: a failed call S(target) ends as invoke(target) would end in the same
\* place whenever the restart the handlers select is one of S: the same
\* handlers run, the same restart is invoked once, the same value is
\* returned or the same exception raised (a retry makes the call again), and
\* the stacks are left alike, the call record popped and the handlers and
\* restarts untouched
C22_FreeLikeSuite ==
    [][\A t \in Threads :
          SuiteCallFails(t)
          => LET chain == FrameChain(cs[t])
                 f == invoke_except(exc[t], chain)
             IN  (f.sel # NoRestart /\ InSeq(f.sel, Members(Top(cs[t]).obj)))
                 => (/\ last'[t].kind = f.kind
                     /\ last'[t].sel = f.sel
                     /\ last'[t].invoked = f.invoked
                     /\ last'[t].ran = f.ran
                     /\ f.kind = "retry"
                        => (/\ CallStarts(t)
                            /\ cs'[t][Len(cs[t]) + 1].func = Top(cs[t]).func
                            /\ cs'[t][Len(cs[t]) + 1].arg = Top(cs[t]).arg)
                     /\ f.kind # "retry"
                        => (/\ exc'[t] = f.exc
                            /\ f.kind = "return" => ret'[t] = f.val
                            /\ cs'[t] = Pop(cs[t])
                            /\ cur_calls' = CallStackPop(cur_calls, chain).stacks)
                     /\ UNCHANGED <<cur_restarts, cur_handlers, restarts, default_handlers>>)]_vars

\* S2(target) under the HandlerSuite has ended with the RuntimeError of S2's
\* raise_error, after the suite's callback declined
C22_Witness ==
    /\ last[1].op = "dispatch"
    /\ last[1].form = "S2"
    /\ last[1].sel = R_raise_error
    /\ last[1].invoked = 1
    /\ last[1].ran = 2
    /\ exc[1] = Err("RuntimeError")
    /\ cur_calls = << >>

\* ----------------------------------------------------------------- C23
\* C23 as stated: a failed call s(target) of a suite whose default_handlers
\* holds a Handler for the error gets the value of the enclosing handler
\* that resolves the error when there is one, and the value of the default
\* handler when there is none
C23_DefaultHandlerConsulted ==
    \A t \in Threads :
        LET e == last[t]
            h == Resolver(ScopeHandlers(cs[t]), e.err)
            d == Resolver(default_handlers[e.form].handlers, e.err)
        IN  (/\ e.op = "dispatch" /\ e.form # "free"
             /\ d # NoHandler
             /\ ScopeFind(cs[t], d.func) # NoRestart
             /\ InSeq(ScopeFind(cs[t], d.func), Members(e.form)))
            => (/\ exc[t] = NoExc
                /\ h # NoHandler => ret[t] = h.val
                /\ h = NoHandler => ret[t] = d.val)

\* What holds: the enclosing handler decides, and without one the call
\* ends with the error of its target, whatever default_handlers holds
C23_DefaultHandlerIgnored ==
    \A t \in Threads :
        LET e == last[t]
            h == Resolver(ScopeHandlers(cs[t]), e.err)
        IN  (/\ e.op = "dispatch" /\ e.form # "free"
             /\ default_handlers[e.form] # NoItem
             /\ InSeq(ScopeFind(cs[t], "use_value"), Members(e.form)))
            => (/\ h # NoHandler => (exc[t] = NoExc /\ ret[t] = h.val)
                /\ h = NoHandler => exc[t] = e.err)

\* ----------------------------------------------------------------- C24
\* Thread t leaves the block of a `with restarts(...)` in this step with an
\* error of the body, no signal, propagating
BodyErrorExits(t) ==
    /\ cs[t] # << >>
    /\ Top(cs[t]).k = "rs" /\ Top(cs[t]).via = "suite" /\ Top(cs[t]).mode = "open"
    /\ exc[t] # NoExc /\ exc[t].ty # "InvokeRestart"
    /\ cs'[t] # cs[t]

C25_SignalNeverHandled ==
    \A t \in Threads :
        (last[t].op \in {"dispatch", "exit"} /\ last[t].err.ty = "InvokeRestart")
        => (last[t].seen = << >> /\ last[t].ran = 0)

\* What holds: the __exit__ of a suite consults no handler for a signal
C25_ExitKeepsSignal ==
    \A t \in Threads :
        (last[t].op = "exit" /\ last[t].err.ty = "InvokeRestart")
        => (last[t].seen = << >> /\ last[t].ran = 0)

\* A dispatcher call whose target let a signal through ran the reaction of
\* a handler for Exception on it
C25_ReactionOnSignal ==
    \E t \in Threads :
        /\ last[t].op = "dispatch"
        /\ last[t].err.ty = "InvokeRestart"
        /\ last[t].ran > 0

\* ----------------------------------------------------------------- C26
\* C26: pop takes the newest item off the list of the nearest frame, from
\* the caller's own outwards, that holds one, deletes the list's entry when
\* that empties it, and changes the entry of no other frame; when no frame
\* of the caller's chain holds a list it raises IndexError and the table is
\* as it was
C26_PopNearest ==
    [][\A t \in Threads :
          (last'[t].op = "pop" /\ <<cur_restarts, exc>>' # <<cur_restarts, exc>>)
          => LET chain == FrameChain(cs[t])
                 holders == {i \in 1 .. Len(chain) : chain[i] \in DOMAIN cur_restarts}
             IN  IF holders = {}
                 THEN /\ exc'[t] = Err("IndexError")
                      /\ cur_restarts' = cur_restarts
                 ELSE LET f == chain[CHOOSE i \in holders : \A j \in holders : i <= j]
                          n == Len(cur_restarts[f])
                      IN  /\ exc'[t] = exc[t]
                          /\ n = 1 => f \notin DOMAIN cur_restarts'
                          /\ n > 1 => (/\ f \in DOMAIN cur_restarts'
                                       /\ cur_restarts'[f] = SubSeq(cur_restarts[f], 1, n - 1))
                          /\ DOMAIN cur_restarts \ {f} = DOMAIN cur_restarts' \ {f}
                          /\ \A g \in DOMAIN cur_restarts \ {f} :
                                cur_restarts'[g] = cur_restarts[g]]_vars

\* pop went past the caller's own frame, which holds nothing, to a frame of
\* a caller, emptied its list and deleted its entry, and other entries stay
C26_Witness ==
    /\ last[1].op = "pop"
    /\ last[1].kind = "ok"
    /\ last[1].n0 # FrameChain(cs[1])[1]
    /\ last[1].n0 \notin DOMAIN cur_restarts
    /\ cur_restarts # << >>

\* pop found no list along the chain while the table holds a list left by a
\* function that has returned: IndexError
C26_Underflow ==
    /\ last[1].op = "pop"
    /\ last[1].kind = "IndexError"
    /\ exc[1] = Err("IndexError")
    /\ cur_restarts # << >>

\* C27: whatever the interleaving of the statements of push and pop of two
\* threads on the shared table, each thread sees what it would see alone:
\* after its push the item on top of what it saw before, after its pop what
\* it saw before without the top item (IndexError when it saw nothing), in
\* between one of the two, and no statement of the other thread changes it
InFlight(t, k) == cs[t] # << >> /\ Top(cs[t]).k = k

C27_Alone(t) ==
    LET e == last[t] IN
    /\ e.op = "push" /\ e.kind = "running" =>
          InFlight(t, "push") /\ Top(cs[t]).via # "orphan" /\ Visible(t) = e.seen
    /\ e.op = "push" /\ e.kind = "ok" => Visible(t) = <<e.form>> \o e.seen
    /\ e.op = "pop" /\ e.kind = "running" =>
          /\ InFlight(t, "pop") /\ Top(cs[t]).via # "orphan"
          /\ Visible(t) = IF Top(cs[t]).mode = "delete" THEN Tail(e.seen) ELSE e.seen
    /\ e.op = "pop" /\ e.kind = "ok" => e.seen # << >> /\ Visible(t) = Tail(e.seen)
    /\ e.op = "pop" /\ e.kind = "IndexError" => e.seen = << >> /\ Visible(t) = << >>
    /\ e.op = "pop" => e.kind # "KeyError"

C27_OthersUntouched ==
    \A t \in Threads :
        <<cs[t], exc[t], last[t]>>' = <<cs[t], exc[t], last[t]>> =>
            Visible(t)' = Visible(t)

C27_ChainsIndependent ==
    /\ [](\A t \in Threads : C27_Alone(t))
    /\ [][C27_OthersUntouched]_vars

\* both threads are in the middle of a call, one of push and one of pop,
\* and both see items
C27_Witness ==
    /\ InOp(1, "push", "append") /\ InOp(2, "pop", "delete")
    /\ last[1].seen # << >> /\ Len(last[2].seen) > 1

\* ----------------------------------------------------------------- C28
\* C28 as stated, for a dispatcher call that is the last statement of a
\* suite's block: when the __exit__ of a suite invokes the restart of a
\* signal, the except clause that let that signal out of the dispatcher call
\* has not invoked it already
SignalLeftInvoked(t) ==
    /\ last[t].op = "dispatch"
    /\ last[t].invoked = 1
    /\ exc[t].ty = "InvokeRestart"
    /\ exc[t].r = last[t].sel

ExitInvokes(t) ==
    /\ last'[t] # last[t]
    /\ last'[t].op = "exit"
    /\ last'[t].err = exc[t]
    /\ last'[t].err.ty = "InvokeRestart"
    /\ last'[t].invoked = 1

C28_InvokedOnce ==
    [][\A t \in Threads : ExitInvokes(t) => ~SignalLeftInvoked(t)]_vars

\* The __exit__ of a suite has invoked skip for a signal and consumed it
C28_ExitInvoked ==
    \E t \in Threads :
        /\ last[t].op = "exit"
        /\ last[t].err.ty = "InvokeRestart"
        /\ last[t].sel = R_skip
        /\ last[t].invoked = 1
        /\ exc[t] = NoExc

\* ----------------------------------------------------------------- C29
\* C29 as stated: an error that a dispatcher call or the __exit__ of a suite
\* offered to the handlers, whose reactions ran and returned, and that
\* propagates on, has no reaction run on it again by the next __exit__ or
\* except clause it reaches
Declined(t) ==
    /\ last[t].op \in {"dispatch", "exit"}
    /\ last[t].ran > 0
    /\ last[t].sel = NoRestart
    /\ exc[t] # NoExc
    /\ exc[t].ty # "InvokeRestart"
    /\ last[t].err = exc[t]

OfferedAgain(t) ==
    /\ last'[t] # last[t]
    /\ last'[t].op \in {"dispatch", "exit"}
    /\ last'[t].err = exc[t]
    /\ last'[t].ran > 0

C29_OfferedOnce ==
    [][\A t \in Threads : OfferedAgain(t) => ~Declined(t)]_vars

\* The __exit__ of a suite ran the reaction of a handler on an error of a
\* dispatcher call
C29_ExitRanReaction ==
    \E t \in Threads :
        /\ last[t].op = "exit"
        /\ last[t].err = Err("TypeError")
        /\ last[t].ran > 0

====
